---- MODULE Spec2Model ----
(***************************************************************************)
(* The KV-backed deck and card services of the store (decks/crud.js and    *)
(* cards/crud.js).  Every handler is a sequence of awaited store calls;    *)
(* each store call is one atomic step, requests of different processes     *)
(* interleave between steps, and any store call may throw, which the       *)
(* handler's try/catch turns into a 500 response.                          *)
(*                                                                         *)
(* Stored values are the parsed JSON values: JSON.stringify followed by    *)
(* get(key, "json") is the identity on the records written here (strings,  *)
(* numbers and arrays only, no undefined field reaches stringify).         *)
(* generateId is modelled as returning an id never returned before.        *)
(*                                                                         *)
(* The module also holds Id.new (id/id.js) and the D1-backed Deck and Card *)
(* models with the DELETE /deck/:id route (deck/deck.js, card/card.js,     *)
(* deck/delete.js): every model operation is one SQL statement, which the  *)
(* database runs atomically.                                               *)
(***************************************************************************)
EXTENDS Integers, Sequences, FiniteSets, TLC

\* ---------------------------------------------------------------- bounds
MaxDecks == 2
MaxCards == 2
MaxClock == 3
MaxRequests == 2
MaxSeqRequests == 4
\* Math.random() returns n / Radix^MaxDigits for some n in 0 .. Radix^MaxDigits - 1
MaxDigits == 2
\* number of calls of the D1 models and route in one run
MaxCalls == 3

Users == {"u1", "u2"}
Procs == {1, 2}
DeckIds == 1..MaxDecks
CardIds == 1..MaxCards
NoId == 0


\* the JavaScript null a KV get returns for a missing key
Null == [null |-> TRUE]

\* ---------------------------------------------------------------- state
VARIABLES
    deck,        \* DECKS_KV  deck:{id}        -> deck record or Null
    userDecks,   \* DECKS_KV  user_decks:{uid} -> [deckIds |-> seq] or Null
    card,        \* CARDS_KV  card:{id}        -> card record or Null
    deckCards,   \* CARDS_KV  deck_cards:{id}  -> [cardIds |-> seq] or Null
    nextDeck,    \* number of generateId("deck") calls made so far
    nextCard,    \* number of generateId("card") calls made so far
    now,         \* the time new Date() returns
    pc,          \* position of each request handler
    req,         \* the request each handler is serving
    loc,         \* the handler's local variables
    resp,        \* the response the handler returned
    nreq,        \* number of requests received so far
    wrote,       \* history: the running request has changed some store key
    everOverlap, \* history: two requests have been in flight at once
    everFailed,  \* history: some store call has thrown
    created,     \* history: deck ids returned by a successful createDeck
    deleted,     \* history: deck ids for which deleteDeck returned success
    last,        \* history: the deleteDeck that was the latest request to
                 \* complete and reported success, if any
    broken,      \* history: the deleteDeck of an existing deck by its owner
                 \* that a store failure interrupted, if that deleteDeck, or
                 \* an interrupted repetition of it, was the latest request
                 \* to complete
    db,          \* D1: the rows of the tables deck and card
    call,        \* D1: the latest call of a model operation or route, with
                 \* its result
    prev,        \* history: the call before the latest one
    lastId,      \* the latest value of Math.random() and the id Id.new()
                 \* made of it
    meCall,      \* auth: the latest run of a handler wrapped by me
    sessions,    \* SESSIONS_KV  session:{token} -> payload or Null
    users,       \* USERS_KV     the ids u with a record under user:{u}
    areq,        \* the request each requireAuth slot is serving
    revokedAt,   \* history: for each token, the number of requests received
                 \* when the latest logout of it succeeded, 0 if there was
                 \* none or a login has stored the token since
    worker       \* the module-level state of the worker: the bindings of env,
                 \* the router's headers and params, and the requests that
                 \* fetch is serving

store == <<deck, userDecks, card, deckCards>>
vars == <<deck, userDecks, card, deckCards, nextDeck, nextCard, now,
          pc, req, loc, resp, nreq, wrote, everOverlap, everFailed,
          created, deleted, last, broken, db, call, prev, lastId, meCall,
          sessions, users, areq, revokedAt, worker>>
kvvars == <<deck, userDecks, card, deckCards, nextDeck, nextCard,
            pc, req, loc, resp, wrote, everOverlap, everFailed,
            created, deleted, last, broken>>
d1vars == <<db, call, prev, lastId>>
authvars == <<meCall, sessions, users, areq, revokedAt, worker>>

\* ---------------------------------------------------------------- responses
\* json(data, status, headers): the body and the status
json(data, status) == [status |-> status, body |-> data]

error(message, status, code) ==
    json([error |-> [message |-> message, code |-> code, status |-> status]],
         status)

success(data, status) == json(data, status)

NoResp == [status |-> 0, body |-> Null]

\* ---------------------------------------------------------------- helpers
\* x?.deckIds || []
IdsOf(v, field) == IF v = Null THEN <<>> ELSE v[field]

\* a filter that removes nothing
KeepAll(s, x) == s

\* Array.prototype.filter(id => id !== x)
RECURSIVE Without(_, _)
Without(s, x) ==
    IF s = <<>> THEN <<>>
    ELSE IF Head(s) = x THEN Without(Tail(s), x)
         ELSE <<Head(s)>> \o Without(Tail(s), x)

\* a filter that keeps the null entries
KeepNulls(s) == s

\* Array.prototype.filter(v => v !== null)
RECURSIVE NonNull(_)
NonNull(s) ==
    IF s = <<>> THEN <<>>
    ELSE IF Head(s) = Null THEN NonNull(Tail(s))
         ELSE <<Head(s)>> \o NonNull(Tail(s))

Range(s) == {s[i] : i \in 1..Len(s)}

\* the clock: it has advanced by one tick whenever a request arrives, and
\* stands still once it has reached MaxClock
Tick(t) == IF t < MaxClock THEN t + 1 ELSE t

NoReq == [op |-> "none", userId |-> "u1", deckId |-> NoId, cardId |-> NoId,
          body |-> Null]
\* deck, card, ids, pending, got: the handler's locals.  after, gone and
\* expect are history taken when the request arrived: after - it is a
\* deleteDeck that directly follows a successful deleteDeck of the same deck
\* by the same caller; retry - it is a deleteDeck that directly follows an
\* interrupted deleteDeck of the same deck by the same caller (broken);
\* gone - it is a listCards of a deck a deleteDeck has
\* reported deleted; expect - for listDecks, the caller's LiveDecksOf
NoLoc == [deck |-> Null, card |-> Null, ids |-> <<>>, pending |-> {},
          got |-> <<>>, after |-> FALSE, retry |-> FALSE, gone |-> FALSE,
          expect |-> {}]
NoLast == [userId |-> "u1", deckId |-> NoId]

InFlight(p) == pc[p] \notin {"idle", "done"}

\* no call of a D1 model or route yet
NoCall ==
    [op |-> "none", user |-> "u1", arg |-> Null, matched |-> FALSE,
     healthy |-> TRUE, result |-> Null]

\* Id.new() has not been called yet
NoIdOut == [random |-> 0, id |-> Null]

\* the empty tables the migration creates
EmptyDb == [deck |-> {}, card |-> {}]

\* a JavaScript value that is undefined, a number or a string
JsUndefined == [type |-> "undefined", num |-> 0, str |-> ""]
JsNumber(n) == [type |-> "number", num |-> n, str |-> ""]
JsString(t) == [type |-> "string", num |-> 0, str |-> t]

\* what Google.me resolves with: null, undefined or an object, whose id may
\* be missing
GoogleNull == [kind |-> "null", id |-> JsUndefined]
GoogleUndefined == [kind |-> "undefined", id |-> JsUndefined]
GoogleUser(id) == [kind |-> "object", id |-> id]

\* no handler wrapped by me has run yet
NoMeCall ==
    [version |-> "none", authorization |-> "", google |-> "none",
     user |-> GoogleUndefined, invoked |-> FALSE, next |-> "none",
     settled |-> "none", status |-> 0, body |-> ""]

\* the tokens generateToken() returns and the users Google knows
Tokens == {"t1", "t2"}
AuthUsers == {"u1", "u2"}
AuthProcs == {1, 2}

\* the Authorization header: absent, or the text after an optional "Bearer "
NoHeader == [present |-> FALSE, bearer |-> FALSE, rest |-> ""]

\* a requireAuth slot that serves no request.  History: seenRevoked - the
\* value of revokedAt for the request's token when the request arrived;
\* readAt - the time at which the session was read; cleaned - the request
\* has deleted the session it found expired
NoAuthReq ==
    [pc |-> "idle", op |-> "none", header |-> NoHeader, token |-> "",
     session |-> Null, ran |-> FALSE, resp |-> NoResp, seenRevoked |-> 0,
     readAt |-> 0, cleaned |-> FALSE]

\* the requests fetch serves at once in one worker
WorkerProcs == {1, 2}

\* a fetch slot that serves no request.  authorization, id and environment
\* are the request's own header, URL parameter and bindings; token is the
\* header value me passed to Google.me; deck is the id the handler copied
\* from params ("" while it has copied none)
NoFetch ==
    [pc |-> "idle", authorization |-> "", id |-> "", environment |-> "",
     token |-> "", deck |-> "", status |-> 0]

\* the worker before its first request: env has no bindings, the router's
\* headers and params are empty
NoWorker ==
    [env |-> "", headers |-> "", params |-> "", count |-> 0,
     slot |-> [p \in WorkerProcs |-> NoFetch]]

\* everything but the store: no request has arrived yet
Fresh ==
    /\ worker = NoWorker
    /\ db = EmptyDb
    /\ call = NoCall
    /\ prev = NoCall
    /\ lastId = NoIdOut
    /\ meCall = NoMeCall
    /\ sessions = [t \in Tokens |-> Null]
    /\ users = {}
    /\ areq = [p \in AuthProcs |-> NoAuthReq]
    /\ revokedAt = [t \in Tokens |-> 0]
    /\ pc = [p \in Procs |-> "idle"]
    /\ req = [p \in Procs |-> NoReq]
    /\ loc = [p \in Procs |-> NoLoc]
    /\ resp = [p \in Procs |-> NoResp]
    /\ nreq = 0
    /\ wrote = [p \in Procs |-> FALSE]
    /\ everOverlap = FALSE
    /\ everFailed = FALSE
    /\ deleted = {}
    /\ last = NoLast
    /\ broken = NoLast

\* the empty namespaces of a new deployment
InitEmpty ==
    /\ deck = [d \in DeckIds |-> Null]
    /\ userDecks = [u \in Users |-> Null]
    /\ card = [c \in CardIds |-> Null]
    /\ deckCards = [d \in DeckIds |-> Null]
    /\ nextDeck = 0
    /\ nextCard = 0
    /\ now = 0
    /\ created = {}
    /\ Fresh

\* the store as createDeck(u1, {name: "A", description: "x"}) at time 1
\* leaves it
InitDeck ==
    /\ deck = [d \in DeckIds |->
                 IF d = 1
                 THEN [id |-> 1, userId |-> "u1", name |-> "A",
                       description |-> "x", created_at |-> 1,
                       updated_at |-> 1]
                 ELSE Null]
    /\ userDecks = [u \in Users |->
                      IF u = "u1" THEN [deckIds |-> <<1>>] ELSE Null]
    /\ card = [c \in CardIds |-> Null]
    /\ deckCards = [d \in DeckIds |->
                      IF d = 1 THEN [cardIds |-> <<>>] ELSE Null]
    /\ nextDeck = 1
    /\ nextCard = 0
    /\ now = 1
    /\ created = {[id |-> 1, userId |-> "u1"]}
    /\ Fresh

\* the store as a createCard(1, {front: "F", back: "K", tags: ["t"]}) by u1
\* at time 2 leaves the store of InitDeck
InitDeckCard ==
    /\ deck = [d \in DeckIds |->
                 IF d = 1
                 THEN [id |-> 1, userId |-> "u1", name |-> "A",
                       description |-> "x", created_at |-> 1,
                       updated_at |-> 2]
                 ELSE Null]
    /\ userDecks = [u \in Users |->
                      IF u = "u1" THEN [deckIds |-> <<1>>] ELSE Null]
    /\ card = [c \in CardIds |->
                 IF c = 1
                 THEN [id |-> 1, deckId |-> 1, front |-> "F", back |-> "K",
                       tags |-> <<"t">>, created_at |-> 2, updated_at |-> 2]
                 ELSE Null]
    /\ deckCards = [d \in DeckIds |->
                      IF d = 1 THEN [cardIds |-> <<1>>] ELSE Null]
    /\ nextDeck = 1
    /\ nextCard = 1
    /\ now = 2
    /\ created = {[id |-> 1, userId |-> "u1"]}
    /\ Fresh

\* a new deployment, or one in which u1 has created a deck, or a deck and a
\* card in it
Init == InitEmpty \/ InitDeck \/ InitDeckCard

\* ---------------------------------------------------------------- requests
Has(b, f) == f \in DOMAIN b

\* JSON bodies of POST/PUT /api/decks: name and description are optional keys
DeckBodies ==
    {[name |-> "A", description |-> "x"],
     [name |-> "B"],
     [name |-> ""],
     [description |-> ""]}

DeckRequests ==
    {[op |-> "listDecks", userId |-> u, deckId |-> NoId, cardId |-> NoId,
      body |-> Null] : u \in Users}
    \cup {[op |-> o, userId |-> u, deckId |-> d, cardId |-> NoId,
           body |-> Null] :
            o \in {"getDeck", "deleteDeck"}, u \in Users,
            d \in DeckIds \cup {NoId}}
    \cup {[op |-> "createDeck", userId |-> u, deckId |-> NoId,
           cardId |-> NoId, body |-> b] : u \in Users, b \in DeckBodies}
    \cup {[op |-> "updateDeck", userId |-> u, deckId |-> d, cardId |-> NoId,
           body |-> b] :
            u \in Users, d \in DeckIds \cup {NoId}, b \in DeckBodies}

\* the scheduling fields of a card
SchedulingFields ==
    {"state", "stability", "difficulty", "due", "last_review", "reps",
     "lapses"}

\* JSON bodies of POST /api/decks/:id/cards and PUT /api/cards/:id; one of
\* them carries the scheduling fields
CardBodies ==
    {[front |-> "F", back |-> "K", tags |-> <<"t">>],
     [front |-> "G", back |-> "K", state |-> "review", stability |-> 2,
      difficulty |-> 5, due |-> 3, last_review |-> 1, reps |-> 1,
      lapses |-> 0],
     [front |-> "G", back |-> ""],
     [front |-> ""],
     [back |-> "L"]}

CardRequests ==
    {[op |-> "listCards", userId |-> u, deckId |-> d, cardId |-> NoId,
      body |-> Null] : u \in Users, d \in DeckIds \cup {NoId}}
    \cup {[op |-> o, userId |-> u, deckId |-> NoId, cardId |-> c,
           body |-> Null] :
            o \in {"getCard", "deleteCard"}, u \in Users,
            c \in CardIds \cup {NoId}}
    \cup {[op |-> "createCard", userId |-> u, deckId |-> d, cardId |-> NoId,
           body |-> b] :
            u \in Users, d \in DeckIds \cup {NoId}, b \in CardBodies}
    \cup {[op |-> "updateCard", userId |-> u, deckId |-> NoId, cardId |-> c,
           body |-> b] :
            u \in Users, c \in CardIds \cup {NoId}, b \in CardBodies}

Requests == DeckRequests \cup CardRequests

\* checks that look at the ids of the URL only, not at the body
RejectIdsOnly(rq) ==
    CASE rq.op \in {"getDeck", "updateDeck", "deleteDeck", "listCards",
                    "createCard"}
             /\ rq.deckId = NoId ->
            error("Missing deck ID", 400, "MISSING_DECK_ID")
      [] rq.op \in {"getCard", "updateCard", "deleteCard"}
             /\ rq.cardId = NoId ->
            error("Missing card ID", 400, "MISSING_CARD_ID")
      [] OTHER -> NoResp

\* the checks a handler makes before its first store call
Reject(rq) ==
    CASE rq.op \in {"getDeck", "updateDeck", "deleteDeck", "listCards",
                    "createCard"}
             /\ rq.deckId = NoId ->
            error("Missing deck ID", 400, "MISSING_DECK_ID")
      [] rq.op \in {"getCard", "updateCard", "deleteCard"}
             /\ rq.cardId = NoId ->
            error("Missing card ID", 400, "MISSING_CARD_ID")
      [] rq.op = "createCard"
             /\ (~Has(rq.body, "front") \/ rq.body.front = ""
                 \/ ~Has(rq.body, "back") \/ rq.body.back = "") ->
            error("Missing card front or back", 400, "MISSING_CARD_DATA")
      [] rq.op = "createDeck"
             /\ (~Has(rq.body, "name") \/ rq.body.name = "") ->
            error("Missing deck name", 400, "MISSING_DECK_NAME")
      [] OTHER -> NoResp

FirstPc(op) ==
    CASE op = "listDecks" -> "ld_index"
      [] op = "getDeck" -> "gd_deck"
      [] op = "createDeck" -> "cd_put"
      [] op = "updateDeck" -> "ud_deck"
      [] op = "deleteDeck" -> "dd_deck"
      [] op = "listCards" -> "lc_verify"
      [] op = "getCard" -> "gc_card"
      [] op = "createCard" -> "cc_verify"
      [] op = "updateCard" -> "uc_card"
      [] op = "deleteCard" -> "dc_card"

\* the catch block of each handler
CatchResponse(op) ==
    CASE op = "listDecks" ->
            error("Failed to list decks", 500, "LIST_DECKS_ERROR")
      [] op = "getDeck" ->
            error("Failed to get deck", 500, "GET_DECK_ERROR")
      [] op = "createDeck" ->
            error("Failed to create deck", 500, "CREATE_DECK_ERROR")
      [] op = "updateDeck" ->
            error("Failed to update deck", 500, "UPDATE_DECK_ERROR")
      [] op = "deleteDeck" ->
            error("Failed to delete deck", 500, "DELETE_DECK_ERROR")
      [] op = "listCards" ->
            error("Failed to list cards", 500, "LIST_CARDS_ERROR")
      [] op = "getCard" ->
            error("Failed to get card", 500, "GET_CARD_ERROR")
      [] op = "createCard" ->
            error("Failed to create card", 500, "CREATE_CARD_ERROR")
      [] op = "updateCard" ->
            error("Failed to update card", 500, "UPDATE_CARD_ERROR")
      [] op = "deleteCard" ->
            error("Failed to delete card", 500, "DELETE_CARD_ERROR")

\* ---------------------------------------------------------------- control
Goto(p, l) ==
    /\ pc' = [pc EXCEPT ![p] = l]
    /\ UNCHANGED <<resp, created, deleted, last, broken, db, call, prev,
                   lastId, authvars>>

\* the handler of request rq returns response r
Return(p, rq, r) ==
    /\ pc' = [pc EXCEPT ![p] = "done"]
    /\ resp' = [resp EXCEPT ![p] = r]
    /\ last' = IF rq.op = "deleteDeck" /\ r.status = 200
               THEN [userId |-> rq.userId, deckId |-> rq.deckId]
               ELSE NoLast
    /\ broken' = IF /\ rq.op = "deleteDeck"
                    /\ r.status = 500
                    /\ \/ loc[p].retry
                       \/ /\ loc[p].deck # Null
                          /\ loc[p].deck.userId = rq.userId
                 THEN [userId |-> rq.userId, deckId |-> rq.deckId]
                 ELSE NoLast
    /\ created' = IF rq.op = "createDeck" /\ r.status = 201
                  THEN created \cup {[id |-> r.body.deck.id,
                                      userId |-> rq.userId]}
                  ELSE created
    /\ deleted' = IF rq.op = "deleteDeck" /\ r.status = 200
                  THEN deleted \cup {rq.deckId}
                  ELSE deleted
    /\ UNCHANGED <<db, call, prev, lastId, authvars>>

Wrote(p) == wrote' = [wrote EXCEPT ![p] = TRUE]

\* the decks createDeck has returned to owner u and no deleteDeck has
\* reported deleted
LiveDecksOf(u) == {c.id : c \in {x \in created : x.userId = u}} \ deleted

\* a request arrives and is served in the lowest free worker slot
Start(p, max) ==
    /\ pc[p] = "idle"
    /\ \A q \in Procs : q < p => InFlight(q)
    /\ nreq < max
    /\ nreq' = nreq + 1
    /\ now' = Tick(now)
    /\ \E rq \in Requests :
        LET r == Reject(rq) IN
        /\ rq.op = "createDeck" =>
              nextDeck + Cardinality({q \in Procs : pc[q] = "cd_put"})
                  < MaxDecks
        /\ rq.op = "createCard" =>
              nextCard + Cardinality({q \in Procs :
                                         pc[q] \in {"cc_verify", "cc_put"}})
                  < MaxCards
        /\ req' = [req EXCEPT ![p] = rq]
        /\ loc' = [loc EXCEPT ![p] =
                     [NoLoc EXCEPT
                        !.after = /\ ~\E o \in Procs \ {p} : InFlight(o)
                                  /\ rq.op = "deleteDeck"
                                  /\ rq.deckId # NoId
                                  /\ last = [userId |-> rq.userId,
                                             deckId |-> rq.deckId],
                        !.retry = /\ ~\E o \in Procs \ {p} : InFlight(o)
                                  /\ rq.op = "deleteDeck"
                                  /\ rq.deckId # NoId
                                  /\ broken = [userId |-> rq.userId,
                                               deckId |-> rq.deckId],
                        !.gone = (rq.op = "listCards"
                                     /\ rq.deckId \in deleted),
                        !.expect = IF rq.op = "listDecks"
                                   THEN LiveDecksOf(rq.userId) ELSE {}]]
        /\ pc' = [pc EXCEPT ![p] =
                    IF r # NoResp THEN "done" ELSE FirstPc(rq.op)]
        /\ resp' = [resp EXCEPT ![p] = r]
        /\ last' = IF r # NoResp THEN NoLast ELSE last
        /\ broken' = IF r # NoResp THEN NoLast ELSE broken
        /\ everOverlap' =
               (everOverlap
                   \/ (r = NoResp /\ \E q \in Procs \ {p} : InFlight(q)))
    /\ UNCHANGED <<store, nextDeck, nextCard, wrote, everFailed, created,
                   deleted, db, call, prev, lastId, authvars>>

\* the response has been sent: the worker slot is free again
Release(p) ==
    /\ pc[p] = "done"
    /\ pc' = [pc EXCEPT ![p] = "idle"]
    /\ req' = [req EXCEPT ![p] = NoReq]
    /\ loc' = [loc EXCEPT ![p] = NoLoc]
    /\ resp' = [resp EXCEPT ![p] = NoResp]
    /\ wrote' = [wrote EXCEPT ![p] = FALSE]
    /\ UNCHANGED <<store, nextDeck, nextCard, now, nreq, everOverlap,
                   everFailed, created, deleted, last, broken, db, call, prev,
                   lastId, authvars>>

\* a store call throws: the handler's catch block answers 500
StoreFailure(p) ==
    /\ InFlight(p)
    /\ Return(p, req[p], CatchResponse(req[p].op))
    /\ everFailed' = TRUE
    /\ UNCHANGED <<store, nextDeck, nextCard, now, req, loc, nreq, wrote,
                   everOverlap>>

\* ---------------------------------------------------------------- listDecks
\* const userDecksData = await env.DECKS_KV.get(`user_decks:${userId}`)
ListDecksIndex(p) ==
    /\ pc[p] = "ld_index"
    /\ LET ids == IdsOf(userDecks[req[p].userId], "deckIds") IN
        /\ loc' = [loc EXCEPT ![p].ids = ids,
                              ![p].pending = 1..Len(ids),
                              ![p].got = [i \in 1..Len(ids) |-> Null]]
        /\ IF ids = <<>>
           THEN Return(p, req[p], success([decks |-> <<>>, total |-> 0], 200))
           ELSE Goto(p, "ld_decks")
    /\ UNCHANGED <<store, nextDeck, nextCard, now, req, wrote, nreq,
                   everOverlap, everFailed>>

\* Promise.all(deckIds.map(id => env.DECKS_KV.get(`deck:${id}`))): the reads
\* complete one by one in any order; the response follows the last one
ListDecksRead(p) ==
    /\ pc[p] = "ld_decks"
    /\ \E i \in loc[p].pending :
        LET got == [loc[p].got EXCEPT ![i] = deck[loc[p].ids[i]]]
            validDecks == NonNull(got)
        IN  /\ loc' = [loc EXCEPT ![p].got = got,
                                  ![p].pending = loc[p].pending \ {i}]
            /\ IF loc[p].pending = {i}
               THEN Return(p, req[p],
                           success([decks |-> validDecks,
                                    total |-> Len(validDecks)], 200))
               ELSE Goto(p, "ld_decks")
    /\ UNCHANGED <<store, nextDeck, nextCard, now, req, wrote, nreq,
                   everOverlap, everFailed>>

\* ---------------------------------------------------------------- getDeck
GetDeckRead(p) ==
    /\ pc[p] = "gd_deck"
    /\ LET d == deck[req[p].deckId] IN
        /\ loc' = [loc EXCEPT ![p].deck = d]
        /\ IF d = Null
           THEN Return(p, req[p], error("Deck not found", 404, "DECK_NOT_FOUND"))
           ELSE IF d.userId # req[p].userId
           THEN Return(p, req[p],
                       error("Unauthorized access to deck", 403, "FORBIDDEN"))
           ELSE Goto(p, "gd_cards")
    /\ UNCHANGED <<store, nextDeck, nextCard, now, req, wrote, nreq,
                   everOverlap, everFailed>>

\* deckCardsData?.cardIds?.length || 0
GetDeckCount(p) ==
    /\ pc[p] = "gd_cards"
    /\ LET cardCount == Len(IdsOf(deckCards[req[p].deckId], "cardIds")) IN
        Return(p, req[p],
               success([deck |-> [id |-> loc[p].deck.id,
                                  userId |-> loc[p].deck.userId,
                                  name |-> loc[p].deck.name,
                                  description |-> loc[p].deck.description,
                                  created_at |-> loc[p].deck.created_at,
                                  updated_at |-> loc[p].deck.updated_at,
                                  cardCount |-> cardCount]], 200))
    /\ UNCHANGED <<store, nextDeck, nextCard, now, req, loc, wrote,
                   nreq, everOverlap, everFailed>>

\* ---------------------------------------------------------------- createDeck
\* a createDeck that goes on to the index without having saved the deck
CreateDeckPutSkipped(p) ==
    /\ pc[p] = "cd_put"
    /\ LET deckId == nextDeck + 1
            d == [id |-> deckId,
                  userId |-> req[p].userId,
                  name |-> req[p].body.name,
                  description |-> IF Has(req[p].body, "description")
                                  THEN req[p].body.description ELSE "",
                  created_at |-> now,
                  updated_at |-> now]
        IN  /\ nextDeck' = deckId
            /\ loc' = [loc EXCEPT ![p].deck = d]
    /\ Goto(p, "cd_index")
    /\ UNCHANGED <<store, nextCard, now, req, nreq, wrote, everOverlap,
                   everFailed>>

\* const deckId = generateId("deck"); const deck = {...};
\* await env.DECKS_KV.put(`deck:${deckId}`, JSON.stringify(deck))
CreateDeckPut(p) ==
    /\ pc[p] = "cd_put"
    /\ LET deckId == nextDeck + 1
            d == [id |-> deckId,
                  userId |-> req[p].userId,
                  name |-> req[p].body.name,
                  description |-> IF Has(req[p].body, "description")
                                  THEN req[p].body.description ELSE "",
                  created_at |-> now,
                  updated_at |-> now]
        IN  /\ nextDeck' = deckId
            /\ deck' = [deck EXCEPT ![deckId] = d]
            /\ loc' = [loc EXCEPT ![p].deck = d]
    /\ Wrote(p)
    /\ Goto(p, "cd_index")
    /\ UNCHANGED <<userDecks, card, deckCards, nextCard, now, req, nreq,
                   everOverlap, everFailed>>

\* a createDeck that starts a new list instead of reading the stored one
CreateDeckIndexFresh(p) ==
    /\ pc[p] = "cd_index"
    /\ loc' = [loc EXCEPT ![p].ids = <<loc[p].deck.id>>]
    /\ Goto(p, "cd_putindex")
    /\ UNCHANGED <<store, nextDeck, nextCard, now, req, wrote, nreq,
                   everOverlap, everFailed>>

\* const userDecksData = await env.DECKS_KV.get(`user_decks:${userId}`);
\* deckIds.push(deckId)
CreateDeckIndex(p) ==
    /\ pc[p] = "cd_index"
    /\ loc' = [loc EXCEPT ![p].ids =
                 Append(IdsOf(userDecks[req[p].userId], "deckIds"),
                        loc[p].deck.id)]
    /\ Goto(p, "cd_putindex")
    /\ UNCHANGED <<store, nextDeck, nextCard, now, req, wrote, nreq,
                   everOverlap, everFailed>>

\* a createDeck whose index write merges: it keeps the ids stored meanwhile
\* and adds only its own new id
CreateDeckPutIndexMerged(p) ==
    /\ pc[p] = "cd_putindex"
    /\ userDecks' = [userDecks EXCEPT ![req[p].userId] =
                       [deckIds |->
                           Append(IdsOf(userDecks[req[p].userId], "deckIds"),
                                  loc[p].deck.id)]]
    /\ Wrote(p)
    /\ Goto(p, "cd_cards")
    /\ UNCHANGED <<deck, card, deckCards, nextDeck, nextCard, now, req, loc,
                   nreq, everOverlap, everFailed>>

\* a createDeck that writes the list under a key that leaves out the user id
CreateDeckPutIndexShared(p) ==
    /\ pc[p] = "cd_putindex"
    /\ userDecks' = [u \in Users |-> [deckIds |-> loc[p].ids]]
    /\ Wrote(p)
    /\ Goto(p, "cd_cards")
    /\ UNCHANGED <<deck, card, deckCards, nextDeck, nextCard, now, req, loc,
                   nreq, everOverlap, everFailed>>

\* await env.DECKS_KV.put(`user_decks:${userId}`, JSON.stringify({ deckIds }))
CreateDeckPutIndex(p) ==
    /\ pc[p] = "cd_putindex"
    /\ userDecks' = [userDecks EXCEPT ![req[p].userId] =
                       [deckIds |-> loc[p].ids]]
    /\ Wrote(p)
    /\ Goto(p, "cd_cards")
    /\ UNCHANGED <<deck, card, deckCards, nextDeck, nextCard, now, req, loc,
                   nreq, everOverlap, everFailed>>

\* await env.CARDS_KV.put(`deck_cards:${deckId}`, { cardIds: [] })
CreateDeckCards(p) ==
    /\ pc[p] = "cd_cards"
    /\ deckCards' = [deckCards EXCEPT ![loc[p].deck.id] = [cardIds |-> <<>>]]
    /\ Wrote(p)
    /\ Return(p, req[p], success([deck |-> loc[p].deck], 201))
    /\ UNCHANGED <<deck, userDecks, card, nextDeck, nextCard, now, req, loc,
                   nreq, everOverlap, everFailed>>

\* ---------------------------------------------------------------- updateDeck
UpdateDeckRead(p) ==
    /\ pc[p] = "ud_deck"
    /\ LET d == deck[req[p].deckId] IN
        /\ loc' = [loc EXCEPT ![p].deck = d]
        /\ IF d = Null
           THEN Return(p, req[p], error("Deck not found", 404, "DECK_NOT_FOUND"))
           ELSE IF d.userId # req[p].userId
           THEN Return(p, req[p],
                       error("Unauthorized access to deck", 403, "FORBIDDEN"))
           ELSE Goto(p, "ud_put")
    /\ UNCHANGED <<store, nextDeck, nextCard, now, req, wrote, nreq,
                   everOverlap, everFailed>>

\* an update that takes { name, description } from the body as they are:
\* a field the body leaves out is emptied
UpdatedDeckOverwrite(d, body, t) ==
    [d EXCEPT !.name = IF Has(body, "name") THEN body.name ELSE "",
              !.description = IF Has(body, "description")
                              THEN body.description ELSE "",
              !.updated_at = t]

\* an update that leaves updated_at alone
UpdatedDeckUnstamped(d, body, t) ==
    [d EXCEPT !.name = IF Has(body, "name") THEN body.name ELSE @,
              !.description = IF Has(body, "description")
                              THEN body.description ELSE @]

\* an update that stamps created_at as well
UpdatedDeckRestamped(d, body, t) ==
    [d EXCEPT !.name = IF Has(body, "name") THEN body.name ELSE @,
              !.description = IF Has(body, "description")
                              THEN body.description ELSE @,
              !.created_at = t,
              !.updated_at = t]

\* { ...deck, ...(name !== undefined && { name }),
\*   ...(description !== undefined && { description }), updated_at }
UpdatedDeck(d, body, t) ==
    [d EXCEPT !.name = IF Has(body, "name") THEN body.name ELSE @,
              !.description = IF Has(body, "description")
                              THEN body.description ELSE @,
              !.updated_at = t]

UpdateDeckPut(p) ==
    /\ pc[p] = "ud_put"
    /\ LET updatedDeck == UpdatedDeck(loc[p].deck, req[p].body, now) IN
        /\ deck' = [deck EXCEPT ![req[p].deckId] = updatedDeck]
        /\ Return(p, req[p], success([deck |-> updatedDeck], 200))
    /\ Wrote(p)
    /\ UNCHANGED <<userDecks, card, deckCards, nextDeck, nextCard, now, req,
                   loc, nreq, everOverlap, everFailed>>

\* ---------------------------------------------------------------- deleteDeck
\* a deleteDeck that does not compare deck.userId with the caller
DeleteDeckReadAnyUser(p) ==
    /\ pc[p] = "dd_deck"
    /\ LET d == deck[req[p].deckId] IN
        /\ loc' = [loc EXCEPT ![p].deck = d]
        /\ IF d = Null
           THEN Return(p, req[p], error("Deck not found", 404, "DECK_NOT_FOUND"))
           ELSE Goto(p, "dd_cards")
    /\ UNCHANGED <<store, nextDeck, nextCard, now, req, wrote, nreq,
                   everOverlap, everFailed>>

DeleteDeckRead(p) ==
    /\ pc[p] = "dd_deck"
    /\ LET d == deck[req[p].deckId] IN
        /\ loc' = [loc EXCEPT ![p].deck = d]
        /\ IF d = Null
           THEN Return(p, req[p], error("Deck not found", 404, "DECK_NOT_FOUND"))
           ELSE IF d.userId # req[p].userId
           THEN Return(p, req[p],
                       error("Unauthorized access to deck", 403, "FORBIDDEN"))
           ELSE Goto(p, "dd_cards")
    /\ UNCHANGED <<store, nextDeck, nextCard, now, req, wrote, nreq,
                   everOverlap, everFailed>>

\* const deckCardsData = await env.CARDS_KV.get(`deck_cards:${deckId}`)
DeleteDeckCards(p) ==
    /\ pc[p] = "dd_cards"
    /\ LET cardIds == IdsOf(deckCards[req[p].deckId], "cardIds") IN
        /\ loc' = [loc EXCEPT ![p].ids = cardIds,
                              ![p].pending = 1..Len(cardIds)]
        /\ Goto(p, IF cardIds = <<>> THEN "dd_delindex" ELSE "dd_delcards")
    /\ UNCHANGED <<store, nextDeck, nextCard, now, req, wrote, nreq,
                   everOverlap, everFailed>>

\* a deleteDeck that leaves the cards in place
DeleteDeckCardKept(p) ==
    /\ pc[p] = "dd_delcards"
    /\ \E i \in loc[p].pending :
        /\ loc' = [loc EXCEPT ![p].pending = loc[p].pending \ {i}]
        /\ Goto(p, IF loc[p].pending = {i} THEN "dd_delindex"
                   ELSE "dd_delcards")
    /\ UNCHANGED <<store, nextDeck, nextCard, now, req, wrote, nreq,
                   everOverlap, everFailed>>

\* Promise.all(cardIds.map(cardId => env.CARDS_KV.delete(`card:${cardId}`))):
\* the deletes complete one by one in any order
DeleteDeckCard(p) ==
    /\ pc[p] = "dd_delcards"
    /\ \E i \in loc[p].pending :
        /\ card' = [card EXCEPT ![loc[p].ids[i]] = Null]
        /\ loc' = [loc EXCEPT ![p].pending = loc[p].pending \ {i}]
        /\ Goto(p, IF loc[p].pending = {i} THEN "dd_delindex"
                   ELSE "dd_delcards")
    /\ Wrote(p)
    /\ UNCHANGED <<deck, userDecks, deckCards, nextDeck, nextCard, now, req,
                   nreq, everOverlap, everFailed>>

\* await env.CARDS_KV.delete(`deck_cards:${deckId}`)
DeleteDeckCardIndex(p) ==
    /\ pc[p] = "dd_delindex"
    /\ deckCards' = [deckCards EXCEPT ![req[p].deckId] = Null]
    /\ Wrote(p)
    /\ Goto(p, "dd_deldeck")
    /\ UNCHANGED <<deck, userDecks, card, nextDeck, nextCard, now, req, loc,
                   nreq, everOverlap, everFailed>>

\* a deleteDeck that leaves the deck record in place
DeleteDeckRecordKept(p) ==
    /\ pc[p] = "dd_deldeck"
    /\ Goto(p, "dd_index")
    /\ UNCHANGED <<store, nextDeck, nextCard, now, req, loc, wrote, nreq,
                   everOverlap, everFailed>>

\* await env.DECKS_KV.delete(`deck:${deckId}`)
DeleteDeckRecord(p) ==
    /\ pc[p] = "dd_deldeck"
    /\ deck' = [deck EXCEPT ![req[p].deckId] = Null]
    /\ Wrote(p)
    /\ Goto(p, "dd_index")
    /\ UNCHANGED <<userDecks, card, deckCards, nextDeck, nextCard, now, req,
                   loc, nreq, everOverlap, everFailed>>

DeleteDeckOk(p) ==
    success([message |-> "Deck deleted successfully",
             deckId |-> req[p].deckId], 200)

\* const userDecksData = await env.DECKS_KV.get(`user_decks:${userId}`)
DeleteDeckIndex(p) ==
    /\ pc[p] = "dd_index"
    /\ LET userDecksData == userDecks[req[p].userId] IN
        IF userDecksData = Null
        THEN /\ Return(p, req[p], DeleteDeckOk(p))
             /\ UNCHANGED loc
        ELSE /\ loc' = [loc EXCEPT ![p].ids =
                          Without(userDecksData.deckIds, req[p].deckId)]
             /\ Goto(p, "dd_putindex")
    /\ UNCHANGED <<store, nextDeck, nextCard, now, req, wrote, nreq,
                   everOverlap, everFailed>>

\* await env.DECKS_KV.put(`user_decks:${userId}`, JSON.stringify({ deckIds }))
DeleteDeckPutIndex(p) ==
    /\ pc[p] = "dd_putindex"
    /\ userDecks' = [userDecks EXCEPT ![req[p].userId] =
                       [deckIds |-> loc[p].ids]]
    /\ Wrote(p)
    /\ Return(p, req[p], DeleteDeckOk(p))
    /\ UNCHANGED <<deck, card, deckCards, nextDeck, nextCard, now, req, loc,
                   nreq, everOverlap, everFailed>>

\* ---------------------------------------------------------------- cards
\* an ownership check that only checks that the deck exists
verifyDeckExists(deckId, userId) ==
    LET d == deck[deckId] IN
    IF d = Null
    THEN [error |-> TRUE,
          response |-> error("Deck not found", 404, "DECK_NOT_FOUND"),
          deck |-> d]
    ELSE [error |-> FALSE, response |-> NoResp, deck |-> d]

\* verifyDeckOwnership(deckId, userId, env)
verifyDeckOwnership(deckId, userId) ==
    LET d == deck[deckId] IN
    IF d = Null
    THEN [error |-> TRUE,
          response |-> error("Deck not found", 404, "DECK_NOT_FOUND"),
          deck |-> d]
    ELSE IF d.userId # userId
    THEN [error |-> TRUE,
          response |-> error("Unauthorized access to deck", 403, "FORBIDDEN"),
          deck |-> d]
    ELSE [error |-> FALSE, response |-> NoResp, deck |-> d]

\* the deck a card request is checked against: the deck of the URL for
\* listCards and createCard, card.deckId for the others
TargetDeck(p) ==
    IF req[p].op \in {"listCards", "createCard"}
    THEN req[p].deckId ELSE loc[p].card.deckId

AfterVerify(pcv) ==
    CASE pcv = "lc_verify" -> "lc_index"
      [] pcv = "cc_verify" -> "cc_put"
      [] pcv = "uc_verify" -> "uc_put"
      [] pcv = "dc_verify" -> "dc_del"

\* a createCard that goes on when the deck exists but is somebody else's
VerifyOwnershipLaxCreate(p) ==
    /\ pc[p] \in {"lc_verify", "gc_verify", "cc_verify", "uc_verify",
                  "dc_verify"}
    /\ LET verifyResult == verifyDeckOwnership(TargetDeck(p), req[p].userId)
       IN
        /\ loc' = [loc EXCEPT ![p].deck = verifyResult.deck]
        /\ IF verifyResult.error
                 /\ ~(pc[p] = "cc_verify" /\ verifyResult.deck # Null)
           THEN Return(p, req[p], verifyResult.response)
           ELSE IF pc[p] = "gc_verify"
           THEN Return(p, req[p], success([card |-> loc[p].card], 200))
           ELSE Goto(p, AfterVerify(pc[p]))
    /\ UNCHANGED <<store, nextDeck, nextCard, now, req, wrote, nreq,
                   everOverlap, everFailed>>

\* a getCard that returns the card whoever owns its deck
VerifyOwnershipLaxRead(p) ==
    /\ pc[p] \in {"lc_verify", "gc_verify", "cc_verify", "uc_verify",
                  "dc_verify"}
    /\ LET verifyResult == verifyDeckOwnership(TargetDeck(p), req[p].userId)
       IN
        /\ loc' = [loc EXCEPT ![p].deck = verifyResult.deck]
        /\ IF pc[p] = "gc_verify"
           THEN Return(p, req[p], success([card |-> loc[p].card], 200))
           ELSE IF verifyResult.error
           THEN Return(p, req[p], verifyResult.response)
           ELSE Goto(p, AfterVerify(pc[p]))
    /\ UNCHANGED <<store, nextDeck, nextCard, now, req, wrote, nreq,
                   everOverlap, everFailed>>

\* const verifyResult = await verifyDeckOwnership(...);
\* if (verifyResult.error) return verifyResult.response
VerifyOwnership(p) ==
    /\ pc[p] \in {"lc_verify", "gc_verify", "cc_verify", "uc_verify",
                  "dc_verify"}
    /\ LET verifyResult == verifyDeckOwnership(TargetDeck(p), req[p].userId)
       IN
        /\ loc' = [loc EXCEPT ![p].deck = verifyResult.deck]
        /\ IF verifyResult.error
           THEN Return(p, req[p], verifyResult.response)
           ELSE IF pc[p] = "gc_verify"
           THEN Return(p, req[p], success([card |-> loc[p].card], 200))
           ELSE Goto(p, AfterVerify(pc[p]))
    /\ UNCHANGED <<store, nextDeck, nextCard, now, req, wrote, nreq,
                   everOverlap, everFailed>>

\* const deckCardsData = await env.CARDS_KV.get(`deck_cards:${deckId}`)
ListCardsIndex(p) ==
    /\ pc[p] = "lc_index"
    /\ LET ids == IdsOf(deckCards[req[p].deckId], "cardIds") IN
        /\ loc' = [loc EXCEPT ![p].ids = ids,
                              ![p].pending = 1..Len(ids),
                              ![p].got = [i \in 1..Len(ids) |-> Null]]
        /\ IF ids = <<>>
           THEN Return(p, req[p], success([cards |-> <<>>, total |-> 0], 200))
           ELSE Goto(p, "lc_cards")
    /\ UNCHANGED <<store, nextDeck, nextCard, now, req, wrote, nreq,
                   everOverlap, everFailed>>

\* Promise.all(cardIds.map(id => env.CARDS_KV.get(`card:${id}`)))
ListCardsRead(p) ==
    /\ pc[p] = "lc_cards"
    /\ \E i \in loc[p].pending :
        LET got == [loc[p].got EXCEPT ![i] = card[loc[p].ids[i]]]
            validCards == NonNull(got)
        IN  /\ loc' = [loc EXCEPT ![p].got = got,
                                  ![p].pending = loc[p].pending \ {i}]
            /\ IF loc[p].pending = {i}
               THEN Return(p, req[p],
                           success([cards |-> validCards,
                                    total |-> Len(validCards)], 200))
               ELSE Goto(p, "lc_cards")
    /\ UNCHANGED <<store, nextDeck, nextCard, now, req, wrote, nreq,
                   everOverlap, everFailed>>

AfterCard(pcc) ==
    CASE pcc = "gc_card" -> "gc_verify"
      [] pcc = "uc_card" -> "uc_verify"
      [] pcc = "dc_card" -> "dc_verify"

\* const card = await env.CARDS_KV.get(`card:${cardId}`, "json");
\* if (!card) return error("Card not found", 404, "CARD_NOT_FOUND")
ReadCard(p) ==
    /\ pc[p] \in {"gc_card", "uc_card", "dc_card"}
    /\ LET c == card[req[p].cardId] IN
        /\ loc' = [loc EXCEPT ![p].card = c]
        /\ IF c = Null
           THEN Return(p, req[p], error("Card not found", 404, "CARD_NOT_FOUND"))
           ELSE Goto(p, AfterCard(pc[p]))
    /\ UNCHANGED <<store, nextDeck, nextCard, now, req, wrote, nreq,
                   everOverlap, everFailed>>

\* const cardId = generateId("card"); const card = {...};
\* await env.CARDS_KV.put(`card:${cardId}`, JSON.stringify(card))
CreateCardPut(p) ==
    /\ pc[p] = "cc_put"
    /\ LET cardId == nextCard + 1
            c == [id |-> cardId,
                  deckId |-> req[p].deckId,
                  front |-> req[p].body.front,
                  back |-> req[p].body.back,
                  tags |-> IF Has(req[p].body, "tags")
                           THEN req[p].body.tags ELSE <<>>,
                  created_at |-> now,
                  updated_at |-> now]
        IN  /\ nextCard' = cardId
            /\ card' = [card EXCEPT ![cardId] = c]
            /\ loc' = [loc EXCEPT ![p].card = c]
    /\ Wrote(p)
    /\ Goto(p, "cc_index")
    /\ UNCHANGED <<deck, userDecks, deckCards, nextDeck, now, req, nreq,
                   everOverlap, everFailed>>

\* a createCard that forgets cardIds.push(cardId)
CreateCardIndexNoPush(p) ==
    /\ pc[p] = "cc_index"
    /\ loc' = [loc EXCEPT ![p].ids = IdsOf(deckCards[req[p].deckId], "cardIds")]
    /\ Goto(p, "cc_putindex")
    /\ UNCHANGED <<store, nextDeck, nextCard, now, req, wrote, nreq,
                   everOverlap, everFailed>>

\* const deckCardsData = await env.CARDS_KV.get(`deck_cards:${deckId}`);
\* cardIds.push(cardId)
CreateCardIndex(p) ==
    /\ pc[p] = "cc_index"
    /\ loc' = [loc EXCEPT ![p].ids =
                 Append(IdsOf(deckCards[req[p].deckId], "cardIds"),
                        loc[p].card.id)]
    /\ Goto(p, "cc_putindex")
    /\ UNCHANGED <<store, nextDeck, nextCard, now, req, wrote, nreq,
                   everOverlap, everFailed>>

\* await env.CARDS_KV.put(`deck_cards:${deckId}`, JSON.stringify({ cardIds }))
CreateCardPutIndex(p) ==
    /\ pc[p] = "cc_putindex"
    /\ deckCards' = [deckCards EXCEPT ![req[p].deckId] =
                       [cardIds |-> loc[p].ids]]
    /\ Wrote(p)
    /\ Goto(p, "cc_deck")
    /\ UNCHANGED <<deck, userDecks, card, nextDeck, nextCard, now, req, loc,
                   nreq, everOverlap, everFailed>>

\* const deck = verifyResult.deck; deck.updated_at = new Date().toISOString();
\* await env.DECKS_KV.put(`deck:${deckId}`, JSON.stringify(deck))
TouchDeck(p) ==
    /\ deck' = [deck EXCEPT ![loc[p].deck.id] =
                   [loc[p].deck EXCEPT !.updated_at = now]]
    /\ Wrote(p)

CreateCardDeck(p) ==
    /\ pc[p] = "cc_deck"
    /\ TouchDeck(p)
    /\ Return(p, req[p], success([card |-> loc[p].card], 201))
    /\ UNCHANGED <<userDecks, card, deckCards, nextDeck, nextCard, now, req,
                   loc, nreq, everOverlap, everFailed>>

\* { ...card, ...(front !== undefined && { front }), ..., updated_at }
UpdatedCard(c, body, t) ==
    [c EXCEPT !.front = IF Has(body, "front") THEN body.front ELSE @,
              !.back = IF Has(body, "back") THEN body.back ELSE @,
              !.tags = IF Has(body, "tags") THEN body.tags ELSE @,
              !.updated_at = t]

\* await env.CARDS_KV.put(`card:${cardId}`, JSON.stringify(updatedCard))
UpdateCardPut(p) ==
    /\ pc[p] = "uc_put"
    /\ LET updatedCard == UpdatedCard(loc[p].card, req[p].body, now) IN
        /\ card' = [card EXCEPT ![req[p].cardId] = updatedCard]
        /\ loc' = [loc EXCEPT ![p].card = updatedCard]
    /\ Wrote(p)
    /\ Goto(p, "uc_deck")
    /\ UNCHANGED <<deck, userDecks, deckCards, nextDeck, nextCard, now, req,
                   nreq, everOverlap, everFailed>>

UpdateCardDeck(p) ==
    /\ pc[p] = "uc_deck"
    /\ TouchDeck(p)
    /\ Return(p, req[p], success([card |-> loc[p].card], 200))
    /\ UNCHANGED <<userDecks, card, deckCards, nextDeck, nextCard, now, req,
                   loc, nreq, everOverlap, everFailed>>

\* await env.CARDS_KV.delete(`card:${cardId}`)
DeleteCardRecord(p) ==
    /\ pc[p] = "dc_del"
    /\ card' = [card EXCEPT ![req[p].cardId] = Null]
    /\ Wrote(p)
    /\ Goto(p, "dc_index")
    /\ UNCHANGED <<deck, userDecks, deckCards, nextDeck, nextCard, now, req,
                   loc, nreq, everOverlap, everFailed>>

\* const deckCardsData = await env.CARDS_KV.get(`deck_cards:${card.deckId}`)
DeleteCardIndex(p) ==
    /\ pc[p] = "dc_index"
    /\ LET deckCardsData == deckCards[loc[p].card.deckId] IN
        IF deckCardsData = Null
        THEN /\ Goto(p, "dc_deck")
             /\ UNCHANGED loc
        ELSE /\ loc' = [loc EXCEPT ![p].ids =
                          Without(deckCardsData.cardIds, req[p].cardId)]
             /\ Goto(p, "dc_putindex")
    /\ UNCHANGED <<store, nextDeck, nextCard, now, req, wrote, nreq,
                   everOverlap, everFailed>>

\* await env.CARDS_KV.put(`deck_cards:${card.deckId}`, { cardIds })
DeleteCardPutIndex(p) ==
    /\ pc[p] = "dc_putindex"
    /\ deckCards' = [deckCards EXCEPT ![loc[p].card.deckId] =
                       [cardIds |-> loc[p].ids]]
    /\ Wrote(p)
    /\ Goto(p, "dc_deck")
    /\ UNCHANGED <<deck, userDecks, card, nextDeck, nextCard, now, req, loc,
                   nreq, everOverlap, everFailed>>

DeleteCardDeck(p) ==
    /\ pc[p] = "dc_deck"
    /\ TouchDeck(p)
    /\ Return(p, req[p],
              success([message |-> "Card deleted successfully",
                       cardId |-> req[p].cardId], 200))
    /\ UNCHANGED <<userDecks, card, deckCards, nextDeck, nextCard, now, req,
                   loc, nreq, everOverlap, everFailed>>

\* ---------------------------------------------------------------- system
\* one store call of the handler running in slot p
Handler(p) ==
        \/ StoreFailure(p)
        \/ ListDecksIndex(p)
        \/ ListDecksRead(p)
        \/ GetDeckRead(p)
        \/ GetDeckCount(p)
        \/ CreateDeckPut(p)
        \/ CreateDeckIndex(p)
        \/ CreateDeckPutIndex(p)
        \/ CreateDeckCards(p)
        \/ UpdateDeckRead(p)
        \/ UpdateDeckPut(p)
        \/ DeleteDeckRead(p)
        \/ DeleteDeckCards(p)
        \/ DeleteDeckCard(p)
        \/ DeleteDeckCardIndex(p)
        \/ DeleteDeckRecord(p)
        \/ DeleteDeckIndex(p)
        \/ DeleteDeckPutIndex(p)
        \/ VerifyOwnership(p)
        \/ ListCardsIndex(p)
        \/ ListCardsRead(p)
        \/ ReadCard(p)
        \/ CreateCardPut(p)
        \/ CreateCardIndex(p)
        \/ CreateCardPutIndex(p)
        \/ CreateCardDeck(p)
        \/ UpdateCardPut(p)
        \/ UpdateCardDeck(p)
        \/ DeleteCardRecord(p)
        \/ DeleteCardIndex(p)
        \/ DeleteCardPutIndex(p)
        \/ DeleteCardDeck(p)

\* two worker slots: requests overlap
Next == \E p \in Procs : Start(p, MaxRequests) \/ Handler(p) \/ Release(p)

\* one worker slot: requests run one after the other
NextSeq == Start(1, MaxSeqRequests) \/ Handler(1) \/ Release(1)

Spec == Init /\ [][Next]_vars

SpecSeq == InitEmpty /\ [][NextSeq]_vars

\* ---------------------------------------------------------------- Id.new
\* Number.prototype.toString(32): the radix
Radix == 32

\* String.prototype.slice(2): the index of the first character kept
SliceStart == 2

\* the digits of radix 32, "0" to "v"; a string is the sequence of its
\* characters
Digits32 ==
    <<"0", "1", "2", "3", "4", "5", "6", "7", "8", "9", "a", "b", "c", "d",
      "e", "f", "g", "h", "i", "j", "k", "l", "m", "n", "o", "p", "q", "r",
      "s", "t", "u", "v">>

RECURSIVE Power(_, _)
Power(b, k) == IF k = 0 THEN 1 ELSE b * Power(b, k - 1)

\* the values of Math.random(): n stands for n / Radix^MaxDigits, a number
\* in [0, 1)
RandomValues == 0..(Power(Radix, MaxDigits) - 1)

\* the k digits of the fraction n / Radix^k, most significant first
RECURSIVE FractionDigits(_, _)
FractionDigits(n, k) ==
    IF k = 0 THEN <<>>
    ELSE FractionDigits(n \div Radix, k - 1) \o <<Digits32[(n % Radix) + 1]>>

\* a fraction is printed without trailing zeros
RECURSIVE StripZeros(_)
StripZeros(s) ==
    IF s # <<>> /\ s[Len(s)] = "0"
    THEN StripZeros(SubSeq(s, 1, Len(s) - 1))
    ELSE s

\* (n / Radix^MaxDigits).toString(32): "0" for zero, otherwise "0." and the
\* digits of the fraction
toString32(n) ==
    IF n = 0 THEN <<"0">>
    ELSE <<"0", ".">> \o StripZeros(FractionDigits(n, MaxDigits))

\* s.slice(start): the characters from index start on, "" when s is shorter
slice(s, start) == SubSeq(s, start + 1, Len(s))

\* Id.new() when Math.random() returns n / Radix^MaxDigits
IdNew(n) == slice(toString32(n), SliceStart)

\* a call of Id.new()
IdNewCall ==
    /\ \E n \in RandomValues :
          lastId' = [random |-> n, id |-> IdNew(n)]
    /\ UNCHANGED <<kvvars, authvars, now, nreq, db, call, prev>>

NextId == IdNewCall

SpecId == InitEmpty /\ [][NextId]_vars

\* ----------------------------------------------------------- the D1 models
\* src/deck/deck.js and src/card/card.js: each method runs one SQL statement
\* on env.DB.  The rows of a table are a set of records; a call is one step.

\* what a statement's run() or first() can do: complete (success is true,
\* however many rows it changed), report success false, or throw
D1Outcomes == {"ok", "fail", "throw"}

\* the values Math.random() takes in the calls of Id.new() the models make
D1Rands == {Radix, 2 * Radix}

\* the ids a caller passes
D1Ids == {IdNew(n) : n \in D1Rands}

\* the name and description a caller passes
DeckInputs ==
    {[name |-> "A", description |-> "x"],
     [name |-> "B", description |-> "y"]}

\* the content a caller passes for a card
CardInputs ==
    {[front |-> "F", back |-> "K"],
     [front |-> "G", back |-> "L"]}

Data(x) == [data |-> x]
Err(message) == [error |-> message]
\* the call did not return: the awaited statement threw
Threw == [threw |-> TRUE]

\* WHERE id = ? AND user_id = ?
Matching(rows, id, user_id) ==
    {r \in rows : r.id = id /\ r.user_id = user_id}

\* the return of update and delete: success ? { data: true } : { error }
RunResult(outcome, message) ==
    IF outcome = "throw" THEN Threw
    ELSE IF outcome = "ok" THEN Data(TRUE)
    ELSE Err(message)

\* one more call of a model: what was called, with what, whether a row
\* matched id and user_id when it was called, whether the database was
\* healthy (no statement of the call fails), and what it returned
Called(op, user, arg, matched, healthy, result) ==
    /\ nreq < MaxCalls
    /\ nreq' = nreq + 1
    /\ prev' = call
    /\ call' = [op |-> op, user |-> user, arg |-> arg, matched |-> matched,
                healthy |-> healthy, result |-> result]

\* Deck.create(deck, user): INSERT INTO deck; a second row with the same
\* primary key is refused by the database
DeckCreate ==
    \E user \in Users, input \in DeckInputs, n \in D1Rands,
       outcome \in D1Outcomes :
        LET id == IdNew(n)
            row == [id |-> id, name |-> input.name,
                    description |-> input.description, created_at |-> now,
                    user_id |-> user]
            taken == \E r \in db.deck : r.id = id
            inserted == outcome = "ok" /\ ~taken
        IN  /\ Called("Deck.create", user, input, FALSE, outcome = "ok",
                      IF outcome = "throw" \/ (outcome = "ok" /\ taken)
                      THEN Threw
                      ELSE IF outcome = "ok" THEN Data(row)
                      ELSE Err("Failed to create deck"))
            /\ db' = IF inserted THEN [db EXCEPT !.deck = @ \cup {row}]
                     ELSE db
            /\ lastId' = [random |-> n, id |-> id]
            /\ now' = Tick(now)
            /\ UNCHANGED <<kvvars, authvars>>

\* Deck.get(deck, user): SELECT ... WHERE id = ? AND user_id = ?, first()
DeckGet ==
    \E user \in Users, id \in D1Ids, outcome \in {"ok", "throw"} :
        LET found == Matching(db.deck, id, user) IN
        /\ Called("Deck.get", user, [id |-> id], found # {}, outcome = "ok",
                  IF outcome = "throw" THEN Threw
                  ELSE IF found # {} THEN Data(CHOOSE r \in found : TRUE)
                  ELSE Err("Failed to get deck"))
        /\ UNCHANGED <<kvvars, authvars, now, db, lastId>>

\* the id Deck.update binds to WHERE id = ?: const id = Id.new()
DeckUpdateId(deckId, n) == IdNew(n)

\* Deck.update(deck, user): UPDATE deck SET name, description WHERE id = ?
\* AND user_id = ?
DeckUpdate ==
    \E user \in Users, deckId \in D1Ids, input \in DeckInputs,
       n \in D1Rands, outcome \in D1Outcomes :
        LET id == DeckUpdateId(deckId, n)
            hit == Matching(db.deck, id, user)
        IN  /\ Called("Deck.update", user,
                      [id |-> deckId, name |-> input.name,
                       description |-> input.description],
                      Matching(db.deck, deckId, user) # {}, outcome = "ok",
                      RunResult(outcome, "Deck not found or not authorized"))
            /\ db' = IF outcome = "ok"
                     THEN [db EXCEPT !.deck =
                            (@ \ hit) \cup
                            {[r EXCEPT !.name = input.name,
                                       !.description = input.description] :
                                r \in hit}]
                     ELSE db
            /\ lastId' = [random |-> n, id |-> IdNew(n)]
            /\ UNCHANGED <<kvvars, authvars, now>>

\* Deck.delete(deck, user): DELETE FROM deck WHERE id = ? AND user_id = ?;
\* the cards of a deleted deck go with it (ON DELETE CASCADE)
DeckDeleteRows(d, id, user, outcome) ==
    LET hit == Matching(d.deck, id, user) IN
    IF outcome = "ok"
    THEN [deck |-> d.deck \ hit,
          card |-> {c \in d.card : \A r \in hit : c.deck_id # r.id}]
    ELSE d

DeckDelete ==
    \E user \in Users, id \in D1Ids, outcome \in D1Outcomes :
        /\ Called("Deck.delete", user, [id |-> id],
                  Matching(db.deck, id, user) # {}, outcome = "ok",
                  RunResult(outcome, "Deck not found or not authorized"))
        /\ db' = DeckDeleteRows(db, id, user, outcome)
        /\ UNCHANGED <<kvvars, authvars, now, lastId>>

\* Card.create(deck, card, user): INSERT INTO card; the database refuses a
\* second row with the same primary key and a deck_id that is no deck's id
CardCreate ==
    \E user \in Users, deckId \in D1Ids, input \in CardInputs,
       n \in D1Rands, outcome \in D1Outcomes :
        LET id == IdNew(n)
            row == [id |-> id, front |-> input.front, back |-> input.back,
                    created_at |-> now, deck_id |-> deckId,
                    user_id |-> user]
            refused == \/ \E r \in db.card : r.id = id
                       \/ \A r \in db.deck : r.id # deckId
            inserted == outcome = "ok" /\ ~refused
        IN  /\ Called("Card.create", user,
                      [deck_id |-> deckId, front |-> input.front,
                       back |-> input.back], FALSE, outcome = "ok",
                      IF outcome = "throw" \/ (outcome = "ok" /\ refused)
                      THEN Threw
                      ELSE IF outcome = "ok" THEN Data(row)
                      ELSE Err("Failed to create card"))
            /\ db' = IF inserted THEN [db EXCEPT !.card = @ \cup {row}]
                     ELSE db
            /\ lastId' = [random |-> n, id |-> id]
            /\ now' = Tick(now)
            /\ UNCHANGED <<kvvars, authvars>>

\* Card.get(card, user): SELECT * FROM card WHERE id = ? AND user_id = ?
CardGet ==
    \E user \in Users, id \in D1Ids, outcome \in {"ok", "throw"} :
        LET found == Matching(db.card, id, user) IN
        /\ Called("Card.get", user, [id |-> id], found # {}, outcome = "ok",
                  IF outcome = "throw" THEN Threw
                  ELSE IF found # {} THEN Data(CHOOSE r \in found : TRUE)
                  ELSE Err("Failed to get card"))
        /\ UNCHANGED <<kvvars, authvars, now, db, lastId>>

\* Card.update(card, user): UPDATE card SET front, back, ... WHERE id = ?
\* AND user_id = ?
CardUpdate ==
    \E user \in Users, id \in D1Ids, input \in CardInputs,
       outcome \in D1Outcomes :
        LET hit == Matching(db.card, id, user) IN
        /\ Called("Card.update", user,
                  [id |-> id, front |-> input.front, back |-> input.back],
                  hit # {}, outcome = "ok",
                  RunResult(outcome, "Card not found or not authorized"))
        /\ db' = IF outcome = "ok"
                 THEN [db EXCEPT !.card =
                        (@ \ hit) \cup
                        {[r EXCEPT !.front = input.front,
                                   !.back = input.back] : r \in hit}]
                 ELSE db
        /\ UNCHANGED <<kvvars, authvars, now, lastId>>

\* Card.delete(card, user): DELETE FROM card WHERE id = ? AND user_id = ?
CardDelete ==
    \E user \in Users, id \in D1Ids, outcome \in D1Outcomes :
        LET hit == Matching(db.card, id, user) IN
        /\ Called("Card.delete", user, [id |-> id], hit # {}, outcome = "ok",
                  RunResult(outcome, "Card not found or not authorized"))
        /\ db' = IF outcome = "ok" THEN [db EXCEPT !.card = @ \ hit]
                 ELSE db
        /\ UNCHANGED <<kvvars, authvars, now, lastId>>

\* card.js holds a second Card object (lines 3-177) whose methods take the
\* id and the user_id themselves, return the bare value and throw an Error
\* where the other object returns { error }.

\* Card.getById(id, user_id): SELECT * FROM card WHERE id = ? AND user_id = ?,
\* returns what first() returns: the row or null
Card1GetById ==
    \E user \in Users, id \in D1Ids, outcome \in {"ok", "throw"} :
        LET found == Matching(db.card, id, user) IN
        /\ Called("Card1.getById", user, [id |-> id], found # {},
                  outcome = "ok",
                  IF outcome = "throw" THEN Threw
                  ELSE IF found # {} THEN CHOOSE r \in found : TRUE
                  ELSE Null)
        /\ UNCHANGED <<kvvars, authvars, now, db, lastId>>

\* if (!result.success || result.meta.changes === 0) throw new Error(...)
Unchanged(outcome, hit) == outcome # "ok" \/ hit = {}

\* Card.update(id, updates, user_id): UPDATE card ... WHERE id = ? AND
\* user_id = ?, throws when no row changed, otherwise returns
\* this.getById(id, user_id)
Card1Update ==
    \E user \in Users, id \in D1Ids, input \in CardInputs,
       outcome \in D1Outcomes :
        LET hit == Matching(db.card, id, user)
            updated == {[r EXCEPT !.front = input.front,
                                  !.back = input.back] : r \in hit}
        IN  /\ Called("Card1.update", user,
                      [id |-> id, front |-> input.front,
                       back |-> input.back],
                      hit # {}, outcome = "ok",
                      IF Unchanged(outcome, hit) THEN Threw
                      ELSE CHOOSE r \in updated : TRUE)
            /\ db' = IF outcome = "ok"
                     THEN [db EXCEPT !.card = (@ \ hit) \cup updated]
                     ELSE db
            /\ UNCHANGED <<kvvars, authvars, now, lastId>>

\* Card.delete(id, user_id): DELETE FROM card WHERE id = ? AND user_id = ?,
\* throws when no row changed, otherwise returns true
Card1Delete ==
    \E user \in Users, id \in D1Ids, outcome \in D1Outcomes :
        LET hit == Matching(db.card, id, user) IN
        /\ Called("Card1.delete", user, [id |-> id], hit # {},
                  outcome = "ok",
                  IF Unchanged(outcome, hit) THEN Threw
                  ELSE [returned |-> TRUE])
        /\ db' = IF outcome = "ok" THEN [db EXCEPT !.card = @ \ hit]
                 ELSE db
        /\ UNCHANGED <<kvvars, authvars, now, lastId>>

\* the methods the object "@card/card" exports
CardMethods == {"create", "get", "list", "update", "delete"}

\* DELETE /deck/:id for an authenticated user: Card.deleteByDeck(deck, user),
\* its error if it has one, otherwise Deck.delete(deck, user); whatever is
\* thrown on the way becomes a response of status 500 without a body.
\* Calling a method the object does not have throws.
DeleteDeckRoute ==
    \E user \in Users, id \in D1Ids, cardsOutcome \in D1Outcomes,
       deckOutcome \in D1Outcomes :
        LET cardsResult == IF "deleteByDeck" \in CardMethods
                           THEN RunResult(cardsOutcome,
                                          "Failed to delete cards")
                           ELSE Threw
            deckRan == cardsResult = Data(TRUE)
            result == IF deckRan
                      THEN RunResult(deckOutcome,
                                     "Deck not found or not authorized")
                      ELSE cardsResult
        IN  /\ Called("DELETE /deck/:id", user, [id |-> id],
                      Matching(db.deck, id, user) # {},
                      cardsOutcome = "ok" /\ deckOutcome = "ok",
                      IF result = Threw
                      THEN [status |-> 500, body |-> Null]
                      ELSE [status |-> 200, body |-> result])
            /\ db' = IF deckRan
                     THEN DeckDeleteRows(db, id, user, deckOutcome)
                     ELSE db
            /\ UNCHANGED <<kvvars, authvars, now, lastId>>

NextD1 ==
    \/ DeckCreate
    \/ DeckGet
    \/ DeckUpdate
    \/ DeckDelete
    \/ CardCreate
    \/ CardGet
    \/ CardUpdate
    \/ CardDelete
    \/ Card1GetById
    \/ Card1Update
    \/ Card1Delete
    \/ DeleteDeckRoute

SpecD1 == InitEmpty /\ [][NextD1]_vars

\* ------------------------------------------------------- the me middleware
\* src/auth/me/me.js: me(next) is the handler of a route; it asks Google.me
\* for the user of headers.authorization and calls next(user).  A run of the
\* handler is one step.

\* the two me functions of me.js: the first returns await next(user), the
\* second returns next(user)
MeVersions == {"await", "return"}

\* headers.authorization
Authorizations == {"Bearer t1", "Bearer t2"}

\* Google.me(...) resolves with a user, rejects, or throws
GoogleOutcomes == {"resolves", "rejects", "throws"}

\* the users Google.me resolves with
GoogleUsers ==
    {GoogleNull, GoogleUndefined, GoogleUser(JsUndefined),
     GoogleUser(JsNumber(0)), GoogleUser(JsString("")),
     GoogleUser(JsNumber(7)), GoogleUser(JsString("u1"))}

\* next(user) returns a Response, returns a promise that resolves with a
\* Response, throws, or returns a promise that rejects
NextOutcomes == {"response", "resolves", "throws", "rejects"}

\* a test for a defined value, which 0 and "" pass
TruthyDefined(v) == v.type # "undefined"

\* the truth value JavaScript gives a value in a condition
Truthy(v) ==
    CASE v.type = "number" -> v.num # 0
      [] v.type = "string" -> v.str # ""
      [] OTHER -> FALSE

\* user?.id
OptionalId(user) ==
    IF user.kind \in {"null", "undefined"} THEN JsUndefined ELSE user.id

\* what reaches the catch block of the try around next(user): what next
\* throws, and the rejection of its promise if the promise is awaited
NextCaught(version, next) ==
    \/ next = "throws"
    \/ next = "rejects" /\ version = "await"

\* the handler me(next) runs once
MeRun(version, authorization, google, user, next) ==
    LET seen == IF google = "resolves" THEN user ELSE GoogleUndefined
        invoked == google = "resolves" /\ Truthy(OptionalId(user))
        ran == IF invoked THEN next ELSE "none"
        run == [version |-> version, authorization |-> authorization,
                google |-> google, user |-> seen, invoked |-> invoked,
                next |-> ran]
        Responds(status, body) ==
            run @@ [settled |-> "response", status |-> status,
                    body |-> body]
    IN  IF google # "resolves" THEN Responds(500, "")
        ELSE IF ~invoked THEN Responds(401, "")
        ELSE IF NextCaught(version, next) THEN Responds(500, "")
        ELSE IF next = "rejects"
        THEN run @@ [settled |-> "rejected", status |-> 0, body |-> ""]
        ELSE Responds(200, "ok")

MaxMeCalls == 3

MeCall ==
    /\ nreq < MaxMeCalls
    /\ nreq' = nreq + 1
    /\ \E version \in MeVersions, authorization \in Authorizations,
          google \in GoogleOutcomes, user \in GoogleUsers,
          next \in NextOutcomes :
            meCall' = MeRun(version, authorization, google, user, next)
    /\ UNCHANGED <<kvvars, now, d1vars, sessions, users, areq, revokedAt,
                   worker>>

NextMe == MeCall

SpecMe == InitEmpty /\ [][NextMe]_vars

\* --------------------------------------------------- sessions, requireAuth
\* NAVIGATION.md: authMiddleware and requireAuth (packages/middleware),
\* handleOAuthCallback and logout (packages/auth), verifyAccessToken
\* (packages/utils/crypto.js).  A request is served by a slot; every await
\* of a store call is a step, so two requests interleave.

MaxAuthRequests == 3

\* 7 days, in ticks of the clock
SessionTtl == 1

Bearer(t) == [present |-> TRUE, bearer |-> TRUE, rest |-> t]
Raw(t) == [present |-> TRUE, bearer |-> FALSE, rest |-> t]
AuthHeaders == {NoHeader, Bearer(""), Bearer("t1"), Bearer("t2"), Raw("t1")}

\* !authHeader: no header, or the empty string
HeaderMissing(h) == ~h.present \/ (~h.bearer /\ h.rest = "")

\* authHeader.replace(/^Bearer\s+/i, "")
BearerToken(h) == h.rest

\* the handlers index.js wraps with requireAuth: validateGoogleToken stands
\* for those that only read request.auth
AuthOps == {"validate", "logout"}

\* a test that ignores expires_at
verifyAlways(payload, t) == payload # Null

\* verifyAccessToken(payload) at time t
verifyAccessToken(payload, t) ==
    IF payload = Null THEN FALSE
    ELSE IF payload.expires_at = 0 THEN FALSE
    ELSE IF t > payload.expires_at THEN FALSE
    ELSE TRUE

\* createAccessToken(userId): the payload stored under session:{token}
AccessPayload(userId, t) ==
    [userId |-> userId, created_at |-> t, expires_at |-> t + SessionTtl]

AuthBusy(p) == areq[p].pc \notin {"idle", "done"}

AuthDone(p, fields, response) ==
    areq' = [areq EXCEPT ![p] =
                (fields @@ [pc |-> "done", resp |-> response]) @@ areq[p]]

AuthGoto(p, fields, label) ==
    areq' = [areq EXCEPT ![p] = (fields @@ [pc |-> label]) @@ areq[p]]

\* what fetch of index.js answers when the handler's promise rejects
InternalError == error("Internal Server Error", 500, "INTERNAL_ERROR")

AuthFrame == UNCHANGED <<kvvars, d1vars, meCall, worker>>

\* time passes
AuthTick ==
    /\ now < MaxClock
    /\ now' = now + 1
    /\ UNCHANGED <<nreq, sessions, users, areq, revokedAt>>
    /\ AuthFrame

\* the store drops a key put with expirationTtl once that time is over
SessionTtlDrop ==
    \E t \in Tokens :
        /\ sessions[t] # Null
        /\ now > sessions[t].expires_at
        /\ sessions' = [sessions EXCEPT ![t] = Null]
        /\ UNCHANGED <<now, nreq, users, areq, revokedAt>>
        /\ AuthFrame

\* handleOAuthCallback for a Google user: the user record, then the session
\* under a new token; a store call that throws ends it with status 500
OAuthCallback ==
    \E u \in AuthUsers, t \in Tokens, stored \in {"none", "user", "all"} :
        /\ nreq < MaxAuthRequests
        /\ nreq' = nreq + 1
        /\ users' = IF stored = "none" THEN users ELSE users \cup {u}
        /\ sessions' = IF stored = "all"
                       THEN [sessions EXCEPT ![t] = AccessPayload(u, now)]
                       ELSE sessions
        /\ revokedAt' = IF stored = "all"
                        THEN [revokedAt EXCEPT ![t] = 0]
                        ELSE revokedAt
        /\ UNCHANGED <<now, areq>>
        /\ AuthFrame

\* a request arrives at a route wrapped by requireAuth: authMiddleware up to
\* its first await
AuthStart(p) ==
    /\ ~AuthBusy(p)
    /\ nreq < MaxAuthRequests
    /\ nreq' = nreq + 1
    /\ \E op \in AuthOps, h \in AuthHeaders :
        LET token == BearerToken(h)
            fresh == [NoAuthReq EXCEPT !.op = op, !.header = h,
                                       !.token = token,
                                       !.seenRevoked =
                                           IF token \in Tokens
                                           THEN revokedAt[token] ELSE 0]
        IN  IF HeaderMissing(h)
            THEN areq' = [areq EXCEPT ![p] =
                    [fresh EXCEPT !.pc = "done",
                                  !.resp = error("Missing authorization header",
                                                 401, "UNAUTHORIZED")]]
            ELSE IF token = ""
            THEN areq' = [areq EXCEPT ![p] =
                    [fresh EXCEPT !.pc = "done",
                                  !.resp = error(
                                      "Invalid authorization header format",
                                      401, "UNAUTHORIZED")]]
            ELSE areq' = [areq EXCEPT ![p] = [fresh EXCEPT !.pc = "session"]]
    /\ UNCHANGED <<now, sessions, users, revokedAt>>
    /\ AuthFrame

\* await env.SESSIONS_KV.get(`session:${token}`, "json") and the two tests
\* of what it returned
AuthGetSession(p) ==
    /\ areq[p].pc = "session"
    /\ \E ok \in BOOLEAN :
        LET sessionData == IF areq[p].token \in Tokens
                           THEN sessions[areq[p].token] ELSE Null
        IN  IF ~ok THEN AuthDone(p, [ran |-> FALSE], InternalError)
            ELSE IF sessionData = Null
            THEN AuthDone(p, [ran |-> FALSE],
                          error("Invalid or expired token", 401,
                                "UNAUTHORIZED"))
            ELSE IF ~verifyAccessToken(sessionData, now)
            THEN AuthGoto(p, [session |-> sessionData, readAt |-> now],
                          "cleanup")
            ELSE AuthGoto(p, [session |-> sessionData, readAt |-> now],
                          "user")
    /\ UNCHANGED <<now, nreq, sessions, users, revokedAt>>
    /\ AuthFrame

\* await env.SESSIONS_KV.delete(`session:${token}`) of an expired session
AuthCleanup(p) ==
    /\ areq[p].pc = "cleanup"
    /\ \E ok \in BOOLEAN :
        IF ok
        THEN /\ sessions' = [sessions EXCEPT ![areq[p].token] = Null]
             /\ AuthDone(p, [cleaned |-> TRUE],
                         error("Token expired", 401, "TOKEN_EXPIRED"))
        ELSE /\ UNCHANGED sessions
             /\ AuthDone(p, [cleaned |-> FALSE], InternalError)
    /\ UNCHANGED <<now, nreq, users, revokedAt>>
    /\ AuthFrame

\* await env.USERS_KV.get(`user:${sessionData.userId}`, "json"), then
\* requireAuth calls handler(request, env, ctx), which runs up to its first
\* await
AuthGetUser(p) ==
    /\ areq[p].pc = "user"
    /\ \E ok \in BOOLEAN :
        IF ~ok THEN AuthDone(p, [ran |-> FALSE], InternalError)
        ELSE IF areq[p].session.userId \notin users
        THEN AuthDone(p, [ran |-> FALSE],
                      error("User not found", 404, "USER_NOT_FOUND"))
        ELSE IF areq[p].op = "logout"
        THEN AuthGoto(p, [ran |-> TRUE], "logout")
        ELSE AuthDone(p, [ran |-> TRUE],
                      success([valid |-> TRUE], 200))
    /\ UNCHANGED <<now, nreq, sessions, users, revokedAt>>
    /\ AuthFrame

\* a logout that leaves the session where it is
LogoutSessionsKept(s, token) == s

\* env.SESSIONS_KV.delete(`session:${authResult.token}`)
LogoutSessions(s, token) == [s EXCEPT ![token] = Null]

\* logout: await env.SESSIONS_KV.delete(`session:${authResult.token}`)
Logout(p) ==
    /\ areq[p].pc = "logout"
    /\ \E ok \in BOOLEAN :
        IF ok
        THEN /\ sessions' = LogoutSessions(sessions, areq[p].token)
             /\ revokedAt' = [revokedAt EXCEPT ![areq[p].token] = nreq]
             /\ AuthDone(p, [ran |-> TRUE],
                         success([message |-> "Logged out successfully"],
                                 200))
        ELSE /\ UNCHANGED <<sessions, revokedAt>>
             /\ AuthDone(p, [ran |-> TRUE],
                         error("Logout failed", 500, "LOGOUT_ERROR"))
    /\ UNCHANGED <<now, nreq, users>>
    /\ AuthFrame

NextAuth ==
    \/ AuthTick
    \/ SessionTtlDrop
    \/ OAuthCallback
    \/ \E p \in AuthProcs :
        \/ AuthStart(p)
        \/ AuthGetSession(p)
        \/ AuthCleanup(p)
        \/ AuthGetUser(p)
        \/ Logout(p)

SpecAuth == InitEmpty /\ [][NextAuth]_vars

\* ================================================================ worker
\* The worker entry point (src/src/deck/card.js, fetch) and the route
\* DELETE /deck/:id (src/src/deck/delete.js).  env, headers and params are
\* module-level objects: one of each for all the requests a worker serves.
\* A handler runs until its next await; other requests run meanwhile.

\* bound on the requests one worker receives
MaxFetches == 3

\* the values of the URL parameter :id
ParamIds == {"deck_1", "deck_2"}

\* the bindings Cloudflare hands to fetch: the same for every request
Environments == {"bindings"}

WorkerFrame ==
    UNCHANGED <<kvvars, d1vars, now, nreq, meCall, sessions, users, areq,
                revokedAt>>

\* fetch(request, environment) { headers(request); env(environment);
\*   return router.handle(request) }
\* handle matches the route, fills params and calls the handler me returned,
\* which runs up to its first await: Google.me(headers.authorization)
Fetch(p) ==
    /\ worker.slot[p].pc = "idle"
    /\ worker.count < MaxFetches
    /\ \E authorization \in Authorizations, id \in ParamIds,
          environment \in Environments :
          worker' =
              [worker EXCEPT
                  !.headers = authorization,
                  !.env = environment,
                  !.params = id,
                  !.count = @ + 1,
                  !.slot[p] = [NoFetch EXCEPT
                                  !.pc = "google",
                                  !.authorization = authorization,
                                  !.id = id,
                                  !.environment = environment,
                                  !.token = authorization]]
    /\ WorkerFrame

\* the handler of DELETE /deck/:id once me has a user:
\*   const deck = { ...params };
\*   const cardsResult = await Card.deleteByDeck(deck, user);
\* Card has no method deleteByDeck, the call throws and the catch answers 500
DeleteDeckHandler(p) ==
    [worker.slot[p] EXCEPT
        !.pc = "done",
        !.deck = worker.params,
        !.status = IF "deleteByDeck" \in CardMethods THEN 200 ELSE 500]

\* Google.me settles and me goes on: 500 when it failed, 401 for a user
\* without a truthy id, the handler otherwise
GoogleSettles(p) ==
    /\ worker.slot[p].pc = "google"
    /\ \E google \in GoogleOutcomes, user \in GoogleUsers :
          worker' =
              [worker EXCEPT !.slot[p] =
                  IF google # "resolves"
                  THEN [@ EXCEPT !.pc = "done", !.status = 500]
                  ELSE IF ~Truthy(OptionalId(user))
                  THEN [@ EXCEPT !.pc = "done", !.status = 401]
                  ELSE DeleteDeckHandler(p)]
    /\ WorkerFrame

\* the response has been sent
FetchReturns(p) ==
    /\ worker.slot[p].pc = "done"
    /\ worker' = [worker EXCEPT !.slot[p] = NoFetch]
    /\ WorkerFrame

NextWorker ==
    \E p \in WorkerProcs :
        \/ Fetch(p)
        \/ GoogleSettles(p)
        \/ FetchReturns(p)

SpecWorker == InitEmpty /\ [][NextWorker]_vars

\* ================================================================ claims
DeckIdsOwnedBy(O) == {d \in DeckIds : deck[d] # Null /\ deck[d].userId = O}
UserIndex(O) == IdsOf(userDecks[O], "deckIds")
CardIdsIn(D) == {c \in CardIds : card[c] # Null /\ card[c].deckId = D}
CardIndex(D) == IdsOf(deckCards[D], "cardIds")
NoDuplicates(s) == Cardinality(Range(s)) = Len(s)
Quiet == \A p \in Procs : ~InFlight(p)
Undisturbed == ~everFailed /\ ~everOverlap
Finished(p, op) == pc[p] = "done" /\ req[p].op = op
Foreign(p) == loc[p].deck # Null /\ loc[p].deck.userId # req[p].userId
Ids(recs) == {recs[i].id : i \in 1..Len(recs)}

C3_ListedUntilDeleteSucceeds ==
    \A p \in Procs :
        (Finished(p, "listDecks") /\ resp[p].status = 200) =>
            (loc[p].expect \ deleted) \subseteq Ids(resp[p].body.decks)

\* C3 (amended): as long as no two requests overlap, a listDecks(O) that
\* starts after createDeck has returned D to O and that returns successfully
\* returns a deck with D's id, until a deleteDeck(D, O) has removed the
\* record deck:{D} (whether or not that deleteDeck then reports success).
C3_ListedWhileRecordExists ==
    ~everOverlap =>
        \A p \in Procs :
            (Finished(p, "listDecks") /\ resp[p].status = 200) =>
                \A D \in loc[p].expect :
                    deck[D] # Null => D \in Ids(resp[p].body.decks)

\* a listDecks that returned a deck created before it, after a store failure
C3_Witness ==
    /\ ~everOverlap /\ everFailed
    /\ \E p \in Procs :
        /\ Finished(p, "listDecks") /\ resp[p].status = 200
        /\ \E D \in loc[p].expect : D \in Ids(resp[p].body.decks)

\* C4: listDecks(O2) returns no deck whose userId differs from O2.
C4_ListOnlyOwnDecks ==
    \A p \in Procs :
        (Finished(p, "listDecks") /\ resp[p].status = 200) =>
            \A i \in 1..Len(resp[p].body.decks) :
                resp[p].body.decks[i].userId = req[p].userId

\* a listDecks that returned a deck while another owner has a deck too
C4_Witness ==
    \E p \in Procs :
        /\ Finished(p, "listDecks") /\ resp[p].status = 200
        /\ resp[p].body.decks # <<>>
        /\ \E d \in DeckIds : deck[d] # Null /\ deck[d].userId # req[p].userId

\* C5 (as claimed): a getDeck by a user who does not own the existing deck
\* returns the same response (status, error code and message) as a getDeck
\* of an id for which no deck record exists.
C5_ForeignLooksAbsent ==
    \A p, q \in Procs :
        (/\ Finished(p, "getDeck") /\ Finished(q, "getDeck")
         /\ req[p].userId = req[q].userId
         /\ req[p].deckId # NoId /\ req[q].deckId # NoId
         /\ resp[p].status # 500 /\ resp[q].status # 500
         /\ Foreign(p)
         /\ loc[q].deck = Null)
            => resp[p] = resp[q]

\* the owned records of O: O's decks, their card lists, their cards and O's
\* deck list
OwnedDecks(O) == {d \in DeckIds : deck[d] # Null /\ deck[d].userId = O}
OwnedCards(O) ==
    {c \in CardIds : card[c] # Null /\ card[c].deckId \in OwnedDecks(O)}
OwnedKept(O) ==
    /\ \A d \in OwnedDecks(O) : deck'[d] = deck[d] /\ deckCards'[d] = deckCards[d]
    /\ \A c \in OwnedCards(O) : card'[c] = card[c]
    /\ userDecks'[O] = userDecks[O]

\* C6: a request whose target deck belongs to somebody else has written no
\* store key, and when it has returned it has returned an error; and no step
\* of a request of caller O2 changes a deck of another owner O, the card list
\* or a card of such a deck, or user_decks:{O}.
C6_ForeignUntouched ==
    /\ [](\A p \in Procs :
            Foreign(p) =>
                /\ ~wrote[p]
                /\ pc[p] = "done" => resp[p].status >= 400)
    /\ [][\A p \in Procs :
            Handler(p) =>
                \A O \in Users \ {req[p].userId} : OwnedKept(O)]_vars

\* requests of u2 to delete u1's deck, or to change a card of it, have
\* returned while the deck holds a card
C6_Witness ==
    \E p \in Procs :
        /\ pc[p] = "done" /\ Foreign(p)
        /\ req[p].op \in {"deleteDeck", "updateCard", "deleteCard", "createCard"}
        /\ resp[p].status = 403
        /\ OwnedCards(loc[p].deck.userId) # {}

\* the steps of deleteDeck
DeleteDeckStep(p) ==
    \/ DeleteDeckRead(p) \/ DeleteDeckCards(p) \/ DeleteDeckCard(p)
    \/ DeleteDeckCardIndex(p) \/ DeleteDeckRecord(p) \/ DeleteDeckIndex(p)
    \/ DeleteDeckPutIndex(p)

\* of the store, a step changes at most the records of deck D of owner O: the
\* deck record, its card list, the cards created in it, and D's entry in
\* user_decks:{O}
OnlyRecordsOf(D, O) ==
    /\ \A d \in DeckIds \ {D} : deck'[d] = deck[d] /\ deckCards'[d] = deckCards[d]
    /\ \A c \in CardIds : card'[c] # card[c] => card[c].deckId = D
    /\ \A u \in Users \ {O} : userDecks'[u] = userDecks[u]
    /\ \/ userDecks'[O] = userDecks[O]
       \/ userDecks'[O] = [deckIds |-> Without(UserIndex(O), D)]

\* C7: as long as no store call fails, a deleteDeck(D, O) that finds D
\* present and owned by O returns success, and a deleteDeck(D, O) that
\* directly follows a successful deleteDeck(D, O) returns the not-found error
\* and writes nothing; every deleteDeck returns a response, and none of its
\* steps changes a record other than those of D.
C7_DeleteTwice ==
    /\ [](\A p \in Procs :
            (Finished(p, "deleteDeck") /\ ~everFailed) =>
                /\ (loc[p].deck # Null /\ ~Foreign(p)) =>
                        resp[p] = DeleteDeckOk(p)
                /\ loc[p].after =>
                        /\ resp[p] = error("Deck not found", 404, "DECK_NOT_FOUND")
                        /\ ~wrote[p])
    /\ [](\A p \in Procs : Finished(p, "deleteDeck") => resp[p] # NoResp)
    /\ [][\A p \in Procs :
            DeleteDeckStep(p) => OnlyRecordsOf(req[p].deckId, req[p].userId)]_vars

\* the second of two deleteDeck(D, O) in a row has returned; the first one
\* deleted a deck while another deck existed
C7_Witness ==
    \E p \in Procs :
        /\ Finished(p, "deleteDeck") /\ loc[p].after /\ ~everFailed
        /\ resp[p].status = 404
        /\ \E d \in DeckIds : deck[d] # Null

\* C8 (as claimed): a listCards(D, O) that starts after a deleteDeck(D, O)
\* has succeeded returns, unless a store call fails, a successful response
\* with an empty card list.
C8_ListCardsOfDeletedDeckIsEmpty ==
    \A p \in Procs :
        (/\ Finished(p, "listCards") /\ loc[p].gone
         /\ [id |-> req[p].deckId, userId |-> req[p].userId] \in created
         /\ resp[p].status # 500)
            => /\ resp[p].status = 200
               /\ resp[p].body.cards = <<>>

Refused(p) ==
    \/ req[p].op = "updateDeck" /\ resp[p].status # 400
            /\ (loc[p].deck = Null \/ Foreign(p))
    \/ req[p].op = "updateCard" /\ resp[p].status # 400
            /\ (loc[p].card = Null \/ loc[p].deck = Null \/ Foreign(p))

\* C10: an updateDeck or updateCard that found its record absent, or the
\* deck not owned by the caller, has written no store key, and when it has
\* returned it has returned an error.
C10_UpdateFailsClosed ==
    \A p \in Procs :
        (req[p].op \in {"updateDeck", "updateCard"} /\ pc[p] = "done"
         /\ Refused(p))
            => ~wrote[p] /\ resp[p].status >= 400

\* an updateCard of a card in somebody else's deck and an updateDeck of a
\* missing deck have both returned
C10_Witness ==
    \E p, q \in Procs :
        /\ Finished(p, "updateCard") /\ Foreign(p) /\ resp[p].status = 403
        /\ Finished(q, "updateDeck") /\ loc[q].deck = Null
        /\ resp[q].status = 404

\* C11 (as claimed): when no deck has been deleted, no store call has failed
\* and no two requests have overlapped, a successful listDecks(O) returns
\* the decks in descending order of created_at: a deck created later comes
\* before a deck created earlier.
C11_ListNewestFirst ==
    \A p \in Procs :
        (/\ Finished(p, "listDecks") /\ resp[p].status = 200
         /\ deleted = {} /\ Undisturbed)
            => \A i, j \in 1..Len(resp[p].body.decks) :
                  i < j => resp[p].body.decks[i].created_at
                               > resp[p].body.decks[j].created_at

\* the records the ids of a list resolve to, in the order of the list
Resolved(ids, records) ==
    NonNull([i \in 1..Len(ids) |-> records[ids[i]]])

\* C12: a listCards(D, O) by the owner of the existing deck D that does not
\* overlap another request returns, unless one of its own store calls fails,
\* status 200 with exactly the card records the ids of deck_cards:{D} resolve
\* to, in the order of the list, and their number as total; an id whose card
\* record is missing is left out.
C12_ListCardsSkipsMissing ==
    \A p \in Procs :
        (/\ Finished(p, "listCards") /\ ~everOverlap
         /\ resp[p].status \notin {400, 500}
         /\ loc[p].deck # Null /\ ~Foreign(p))
            => LET cards == Resolved(CardIndex(req[p].deckId), card) IN
               /\ resp[p].status = 200
               /\ resp[p].body.cards = cards
               /\ resp[p].body.total = Len(cards)
               /\ \A i \in 1..Len(cards) : cards[i] # Null

\* a listCards has returned successfully while deck_cards:{D} holds the id of
\* a card whose record is gone
C12_Witness ==
    \E p \in Procs :
        /\ Finished(p, "listCards") /\ ~everOverlap
        /\ resp[p].status = 200
        /\ \E i \in 1..Len(CardIndex(req[p].deckId)) :
              card[CardIndex(req[p].deckId)[i]] = Null
        /\ Len(resp[p].body.cards) < Len(CardIndex(req[p].deckId))

\* C13: a createCard has written a store key only if the deck record it
\* read exists and has the caller's userId; when it read no deck record it
\* has returned the not-found error, and when it read somebody else's deck
\* the forbidden error, in both cases without writing a store key.
C13_CreateCardGuarded ==
    \A p \in Procs :
        req[p].op = "createCard" =>
            /\ wrote[p] =>
                  loc[p].deck # Null /\ loc[p].deck.userId = req[p].userId
            /\ (pc[p] = "done" /\ resp[p].status \notin {400, 500}) =>
                  /\ loc[p].deck = Null =>
                        /\ resp[p] = error("Deck not found", 404,
                                           "DECK_NOT_FOUND")
                        /\ ~wrote[p]
                  /\ Foreign(p) =>
                        /\ resp[p] = error("Unauthorized access to deck", 403,
                                           "FORBIDDEN")
                        /\ ~wrote[p]
                  /\ resp[p].status = 201 =>
                        /\ wrote[p]
                        /\ resp[p].body.card.deckId = req[p].deckId

\* one createCard into somebody else's deck and one into a missing deck have
\* returned, and nothing was written
C13_Witness ==
    \E p, q \in Procs :
        /\ Finished(p, "createCard") /\ Foreign(p) /\ resp[p].status = 403
        /\ Finished(q, "createCard") /\ loc[q].deck = Null
        /\ resp[q].status = 404
        /\ ~wrote[p] /\ ~wrote[q]

CardOps == {"getCard", "updateCard", "deleteCard"}

\* the card record a card request is about: the one the handler has read,
\* or before that the one in the store
TargetCard(p) ==
    IF loc[p].card # Null THEN loc[p].card
    ELSE IF req[p].cardId # NoId THEN card[req[p].cardId]
    ELSE Null

\* the deck of the card of the request of p exists and is somebody else's
CardOfOther(p) ==
    /\ req[p].op \in CardOps
    /\ TargetCard(p) # Null
    /\ deck[TargetCard(p).deckId] # Null
    /\ deck[TargetCard(p).deckId].userId # req[p].userId

\* C14: a getCard, updateCard or deleteCard of a card whose deck is somebody
\* else's has written no store key, and once returned it has returned an
\* error that does not carry the card; none of its steps changes a card
\* record, a deck_cards list, a deck record or a user_decks list.
C14_CardOpsOwnerScoped ==
    /\ [](\A p \in Procs :
            CardOfOther(p) =>
                /\ ~wrote[p]
                /\ pc[p] = "done" =>
                      /\ resp[p].status >= 400
                      /\ "card" \notin DOMAIN resp[p].body)
    /\ [][\A p \in Procs :
            (Handler(p) /\ CardOfOther(p)) => UNCHANGED store]_vars

\* a getCard and a deleteCard of a card of somebody else's deck have both
\* returned 403, and the card record is still there
C14_Witness ==
    \E p, q \in Procs :
        /\ Finished(p, "getCard") /\ CardOfOther(p) /\ resp[p].status = 403
        /\ Finished(q, "deleteCard") /\ CardOfOther(q) /\ resp[q].status = 403
        /\ card[req[q].cardId] # Null

\* C15 (as claimed): when a createCard whose body carries scheduling fields
\* has returned 201, the stored card record carries each of those fields
\* with the value of the body.
C15_SchedulingFieldsStored ==
    \A p \in Procs :
        (Finished(p, "createCard") /\ resp[p].status = 201 /\ ~everOverlap)
            => LET c == card[resp[p].body.card.id] IN
               \A f \in SchedulingFields :
                  Has(req[p].body, f) =>
                      /\ c # Null
                      /\ Has(c, f)
                      /\ c[f] = req[p].body[f]

\* a createDeck without a name or with an empty one, or a createCard without
\* a front or a back or with an empty one
MissingField(rq) ==
    \/ rq.op = "createDeck" /\ (~Has(rq.body, "name") \/ rq.body.name = "")
    \/ rq.op = "createCard"
          /\ (\/ ~Has(rq.body, "front") \/ rq.body.front = ""
              \/ ~Has(rq.body, "back") \/ rq.body.back = "")

\* C16: a createDeck with a missing or empty name has returned status 400
\* with code MISSING_DECK_NAME, and a createCard with a missing or empty
\* front or back status 400 with code MISSING_CARD_DATA (MISSING_DECK_ID
\* when the URL has no deck id); neither has made a store call, and the
\* step that serves such a request leaves the store unchanged.
C16_MissingFieldRejected ==
    /\ [](\A p \in Procs :
            MissingField(req[p]) =>
                /\ pc[p] = "done"
                /\ ~wrote[p]
                /\ resp[p] =
                     IF req[p].op = "createDeck"
                     THEN error("Missing deck name", 400, "MISSING_DECK_NAME")
                     ELSE IF req[p].deckId = NoId
                     THEN error("Missing deck ID", 400, "MISSING_DECK_ID")
                     ELSE error("Missing card front or back", 400,
                                "MISSING_CARD_DATA"))
    /\ [][\A p \in Procs :
            (MissingField(req'[p]) /\ <<pc[p], req[p]>>' # <<pc[p], req[p]>>)
                => UNCHANGED store]_vars

\* a createCard without a back, into an existing deck of the caller, has
\* been rejected, and no card has been created
C16_Witness ==
    \E p \in Procs :
        /\ Finished(p, "createCard") /\ req[p].body = [front |-> ""]
        /\ req[p].deckId # NoId /\ deck[req[p].deckId] # Null
        /\ deck[req[p].deckId].userId = req[p].userId
        /\ resp[p].status = 400
        /\ nextCard = 0

\* C17 (as claimed): whatever value in [0, 1) Math.random() returns, zero
\* included, the id Id.new() returns is not the empty string.
C17_IdNeverEmpty ==
    lastId # NoIdOut => lastId.id # <<>>

\* C18: when the owner of a deck calls Deck.update and it returns
\* {data: true}, a Deck.get of that deck by the same user right after it
\* returns the deck with the new name and the new description.
C18_UpdateThenGet ==
    (/\ call.op = "Deck.get"
     /\ call.healthy
     /\ prev.op = "Deck.update"
     /\ prev.user = call.user
     /\ prev.arg.id = call.arg.id
     /\ prev.matched
     /\ "data" \in DOMAIN prev.result)
    => /\ "data" \in DOMAIN call.result
       /\ call.result.data.name = prev.arg.name
       /\ call.result.data.description = prev.arg.description

\* C19: Deck.update, Deck.delete, Card.update and Card.delete return an
\* error ("... not found or not authorized") whenever no row matches the
\* id and the user_id they are called with.
C19_NoMatchIsError ==
    (/\ call.op \in {"Deck.update", "Deck.delete", "Card.update",
                     "Card.delete"}
     /\ call.healthy
     /\ ~call.matched)
    => "error" \in DOMAIN call.result

\* C20: DELETE /deck/:id called by the owner of the deck, on a healthy
\* database, responds {"data": true} and leaves neither the deck nor any
\* card of the deck in the tables.
C20_RouteDeletesDeck ==
    (/\ call.op = "DELETE /deck/:id"
     /\ call.healthy
     /\ call.matched)
    => /\ call.result = [status |-> 200, body |-> Data(TRUE)]
       /\ \A r \in db.deck : r.id # call.arg.id
       /\ \A c \in db.card : c.deck_id # call.arg.id

\* the calls that address one record by its id and the caller's user_id
ByIdOps ==
    {"Deck.get", "Deck.update", "Deck.delete", "Card.get", "Card.update",
     "Card.delete", "Card1.update", "Card1.delete"}

\* C21: when the record a Deck or Card model operation is called for is
\* missing or owned by another user (and the database is healthy), the call
\* does not throw and returns an object with exactly one of data and error.
C21_MissingRecordIsResult ==
    (/\ call.op \in ByIdOps
     /\ call.healthy
     /\ ~call.matched)
    => /\ call.result # Threw
       /\ ("data" \in DOMAIN call.result) # ("error" \in DOMAIN call.result)

\* the users the middleware has to turn away: null, undefined, and an
\* object whose id is missing, 0 or the empty string
Rejectable(user) ==
    \/ user.kind \in {"null", "undefined"}
    \/ user.id.type = "undefined"
    \/ user.id.type = "number" /\ user.id.num = 0
    \/ user.id.type = "string" /\ user.id.str = ""

\* C22: me invokes next only when Google.me returned a user with a truthy
\* id; for null, undefined and a user whose id is missing, 0 or "" the
\* response is 401 and next is not invoked.
C22_NextOnlyForUserWithId ==
    /\ meCall.invoked => meCall.google = "resolves" /\ ~Rejectable(meCall.user)
    /\ (meCall.google = "resolves" /\ Rejectable(meCall.user))
       => /\ ~meCall.invoked
          /\ meCall.settled = "response"
          /\ meCall.status = 401

C22_Witness ==
    /\ meCall.google = "resolves"
    /\ meCall.user = GoogleUser(JsNumber(0))
    /\ meCall.status = 401
    /\ ~meCall.invoked

\* C23: whatever goes wrong while me handles a request (Google.me throws or
\* rejects, next throws or rejects), the handler answers 500 with an empty
\* body; nothing is thrown or rejected out of the middleware.
C23_ErrorsBecome500 ==
    (\/ meCall.google \in {"rejects", "throws"}
     \/ meCall.next \in {"rejects", "throws"})
    => /\ meCall.settled = "response"
       /\ meCall.status = 500
       /\ meCall.body = ""

TokenExpired == error("Token expired", 401, "TOKEN_EXPIRED")

\* C24: a handler wrapped by requireAuth runs only for a token whose stored
\* session had not expired when it was read (time <= expires_at) and whose
\* user record exists; a request whose handler does not run gets an error
\* response; and the request that finds the session expired deletes it from
\* SESSIONS_KV before it answers.
C24_HandlerNeedsLiveSession ==
    /\ [](\A p \in AuthProcs :
            /\ areq[p].ran
                => /\ areq[p].token \in Tokens
                   /\ areq[p].session # Null
                   /\ areq[p].readAt <= areq[p].session.expires_at
                   /\ areq[p].session.userId \in users
            /\ (areq[p].pc = "done" /\ ~areq[p].ran)
                => /\ areq[p].resp.status \in {401, 404, 500}
                   /\ "error" \in DOMAIN areq[p].resp.body)
    /\ [][\A p \in AuthProcs :
            (/\ areq[p].pc = "session"
             /\ areq'[p].pc # "session"
             /\ sessions[areq[p].token] # Null
             /\ now > sessions[areq[p].token].expires_at
             /\ areq'[p].resp # InternalError)
            => areq'[p].pc = "cleanup"]_vars
    /\ [][\A p \in AuthProcs :
            (/\ areq[p].pc = "cleanup"
             /\ areq'[p].pc = "done"
             /\ areq'[p].resp # InternalError)
            => /\ sessions'[areq[p].token] = Null
               /\ areq'[p].resp = TokenExpired
               /\ ~areq'[p].ran]_vars

C24_Witness ==
    \E p \in AuthProcs :
        /\ areq[p].pc = "done"
        /\ areq[p].resp = TokenExpired
        /\ areq[p].cleaned
        /\ areq[p].session # Null
        /\ areq[p].readAt > areq[p].session.expires_at
        /\ sessions[areq[p].token] = Null

\* a request that arrived after a logout of its token had succeeded, with no
\* login storing the token since
AfterLogout(p) ==
    /\ areq[p].token \in Tokens
    /\ areq[p].seenRevoked # 0
    /\ revokedAt[areq[p].token] = areq[p].seenRevoked

\* C25: once a logout of token t has succeeded, the handler of a later
\* request that presents t does not run and the request is answered 401
\* (500 if a store call throws), until a login stores t again.
C25_NoAccessAfterLogout ==
    \A p \in AuthProcs :
        AfterLogout(p)
        => /\ ~areq[p].ran
           /\ (areq[p].pc = "done" /\ areq[p].resp # InternalError)
               => areq[p].resp.status = 401

C25_Witness ==
    \E p \in AuthProcs :
        /\ AfterLogout(p)
        /\ areq[p].pc = "done"
        /\ areq[p].resp.status = 401
        /\ sessions[areq[p].token] = Null

\* the ids a step adds to a list
Added(before, after, field) ==
    Range(IdsOf(after, field)) \ Range(IdsOf(before, field))

\* C26: createDeck and createCard save the record before they put its id
\* into the parent index: a step that adds an id to user_decks:{owner} or
\* deck_cards:{deck} leaves a record under that id, and wherever a create
\* stops, the id it made is in the index only if its record exists.
C26_RecordBeforeIndex ==
    /\ [](\A p \in Procs :
            /\ (/\ req[p].op = "createDeck"
                /\ loc[p].deck # Null
                /\ loc[p].deck.id \in
                       Range(IdsOf(userDecks[req[p].userId], "deckIds")))
               => deck[loc[p].deck.id] # Null
            /\ (/\ req[p].op = "createCard"
                /\ loc[p].card # Null
                /\ loc[p].card.id \in
                       Range(IdsOf(deckCards[req[p].deckId], "cardIds")))
               => card[loc[p].card.id] # Null)
    /\ [][/\ \A u \in Users :
               \A d \in Added(userDecks[u], userDecks'[u], "deckIds") :
                   deck'[d] # Null
           /\ \A k \in DeckIds :
               \A c \in Added(deckCards[k], deckCards'[k], "cardIds") :
                   card'[c] # Null]_vars

\* a createDeck stopped by a store failure after it had written the index
C26_Witness ==
    \E p \in Procs :
        /\ pc[p] = "done"
        /\ req[p].op = "createDeck"
        /\ resp[p].status = 500
        /\ loc[p].deck # Null
        /\ loc[p].deck.id \in
               Range(IdsOf(userDecks[req[p].userId], "deckIds"))
        /\ deck[loc[p].deck.id] # Null
        /\ deckCards[loc[p].deck.id] = Null

\* the cards that exist and are listed in the card index of a deck whose
\* record is gone
CardsOfGoneDecks ==
    {c \in CardIds :
        /\ card[c] # Null
        /\ \E d \in DeckIds :
              /\ deck[d] = Null
              /\ c \in Range(IdsOf(deckCards[d], "cardIds"))}

AllGone(D, O) ==
    /\ deck[D] = Null
    /\ \A c \in CardIds : card[c] # Null => card[c].deckId # D
    /\ deckCards[D] = Null
    /\ D \notin Range(IdsOf(userDecks[O], "deckIds"))

\* C28: when a deleteDeck(D, O) was interrupted by a store failure and
\* deleteDeck(D, O) is repeated until a call runs without store failure,
\* that call ends with deck:{D}, the cards of D, deck_cards:{D} and D's
\* entry in user_decks:{O} all gone.
C28_RetryCompletesDelete ==
    \A p \in Procs :
        (/\ pc[p] = "done"
         /\ req[p].op = "deleteDeck"
         /\ loc[p].retry
         /\ resp[p].status # 500)
        => AllGone(req[p].deckId, req[p].userId)

\* C29: after a deleteDeck(D, O) has succeeded with no other operation
\* running, no card record with deckId D remains, deck_cards:{D} is absent
\* and D is absent from user_decks:{O}.
C29_DeleteLeavesNothing ==
    \A p \in Procs :
        (/\ Finished(p, "deleteDeck")
         /\ resp[p].status = 200
         /\ \A q \in Procs \ {p} : ~InFlight(q))
        => /\ \A c \in CardIds :
                 card[c] # Null => card[c].deckId # req[p].deckId
           /\ deckCards[req[p].deckId] = Null
           /\ req[p].deckId \notin
                  Range(IdsOf(userDecks[req[p].userId], "deckIds"))

\* request p of the given create operation has written the index it read
WroteIndex(p, op, after) ==
    /\ req[p].op = op
    /\ \/ pc[p] = after
       \/ pc[p] = "done" /\ resp[p].status = 201

\* two createDeck calls of one owner that have both written user_decks:{O},
\* each having read it before the other wrote: neither list read holds the
\* other's new id
BothReadFirstDecks(p, q) ==
    /\ p # q
    /\ WroteIndex(p, "createDeck", "cd_cards")
    /\ WroteIndex(q, "createDeck", "cd_cards")
    /\ req[p].userId = req[q].userId
    /\ loc[p].deck.id \notin Range(loc[q].ids)
    /\ loc[q].deck.id \notin Range(loc[p].ids)

\* the same for two createCard calls on one deck
BothReadFirstCards(p, q) ==
    /\ p # q
    /\ WroteIndex(p, "createCard", "cc_deck")
    /\ WroteIndex(q, "createCard", "cc_deck")
    /\ req[p].deckId = req[q].deckId
    /\ loc[p].card.id \notin Range(loc[q].ids)
    /\ loc[q].card.id \notin Range(loc[p].ids)

\* C30: index writes are whole-list replacements, the last writer wins: when
\* two createDeck calls of one owner both read user_decks:{O} before either
\* wrote it, the stored list is one of the two lists written, it holds only
\* one of the two new ids, and both deck records exist; the same holds for
\* two createCard calls on one deck and deck_cards:{D}.
C30_LastWriterWins ==
    \A p, q \in Procs :
        /\ BothReadFirstDecks(p, q) =>
              LET stored == UserIndex(req[p].userId)
              IN  /\ stored \in {loc[p].ids, loc[q].ids}
                  /\ Cardinality(Range(stored)
                         \cap {loc[p].deck.id, loc[q].deck.id}) = 1
                  /\ deck[loc[p].deck.id] # Null
                  /\ deck[loc[q].deck.id] # Null
        /\ BothReadFirstCards(p, q) =>
              LET stored == CardIndex(req[p].deckId)
              IN  /\ stored \in {loc[p].ids, loc[q].ids}
                  /\ Cardinality(Range(stored)
                         \cap {loc[p].card.id, loc[q].card.id}) = 1
                  /\ card[loc[p].card.id] # Null
                  /\ card[loc[q].card.id] # Null

\* two createDeck calls of one owner raced on user_decks:{O}: both answered
\* 201 and one of the two decks is missing from the list
C30_Witness ==
    \E p, q \in Procs :
        /\ BothReadFirstDecks(p, q)
        /\ pc[p] = "done" /\ pc[q] = "done"
        /\ loc[p].deck.id \notin Range(UserIndex(req[p].userId))
        /\ loc[q].deck.id \in Range(UserIndex(req[p].userId))

\* two createCard calls on one deck raced on deck_cards:{D}
C30_WitnessCards ==
    \E p, q \in Procs :
        /\ BothReadFirstCards(p, q)
        /\ pc[p] = "done" /\ pc[q] = "done"
        /\ loc[p].card.id \notin Range(CardIndex(req[p].deckId))

\* C31: once a createCard on deck D and a deleteDeck(D) of the same owner
\* have both completed, in whatever order their steps were taken, every card
\* record in the store has a deckId that names an existing deck record.
C31_NoCardLeftBehind ==
    \A p, q \in Procs :
        (/\ Finished(p, "createCard") /\ resp[p].status = 201
         /\ Finished(q, "deleteDeck") /\ resp[q].status = 200
         /\ req[p].deckId = req[q].deckId
         /\ req[p].userId = req[q].userId
         /\ ~everFailed)
        => \A c \in CardIds :
              card[c] # Null => deck[card[c].deckId] # Null

\* C32: when two requests are in flight in one worker, each handler acts on
\* its own request's identity and URL parameters: the header value me passed
\* to Google.me and the id the handler copied from params are those of the
\* request the handler serves.
C32_OwnRequestOnly ==
    \A p \in WorkerProcs :
        /\ worker.slot[p].pc # "idle"
              => worker.slot[p].token = worker.slot[p].authorization
        /\ worker.slot[p].deck # ""
              => worker.slot[p].deck = worker.slot[p].id

\* the fields of a deck record and of a card record that are fixed at creation
DeckIdentity(d) == <<d.id, d.userId, d.created_at>>
CardIdentity(c) == <<c.id, c.deckId, c.created_at>>

\* the copy of a record that a running handler holds
HoldsDeck(p, d) == InFlight(p) /\ loc[p].deck # Null /\ loc[p].deck.id = d
HoldsCard(p, c) == InFlight(p) /\ loc[p].card # Null /\ loc[p].card.id = c

\* C33: across any sequence of KV operations the id, userId and created_at
\* of a stored deck record are the values its createDeck wrote, and the id,
\* deckId and created_at of a stored card record those its createCard wrote:
\* a record is stored under its id; the copy a running handler holds agrees
\* with the stored record in these fields; a step that rewrites a record
\* keeps them; and a record appears either in the put of a create, with the
\* new id, the caller or deck of the request and the current time, or as the
\* copy a running handler holds.
C33_IdentityFieldsFixed ==
    /\ [](/\ \A d \in DeckIds : deck[d] # Null =>
                /\ deck[d].id = d
                /\ \A p \in Procs : HoldsDeck(p, d) =>
                      DeckIdentity(loc[p].deck) = DeckIdentity(deck[d])
          /\ \A c \in CardIds : card[c] # Null =>
                /\ card[c].id = c
                /\ \A p \in Procs : HoldsCard(p, c) =>
                      CardIdentity(loc[p].card) = CardIdentity(card[c]))
    /\ [][/\ \A d \in DeckIds : deck'[d] # Null =>
                IF deck[d] # Null
                THEN DeckIdentity(deck'[d]) = DeckIdentity(deck[d])
                ELSE \E p \in Procs :
                        \/ /\ pc[p] = "cd_put"
                           /\ DeckIdentity(deck'[d]) =
                                  <<nextDeck + 1, req[p].userId, now>>
                        \/ /\ HoldsDeck(p, d)
                           /\ DeckIdentity(deck'[d]) =
                                  DeckIdentity(loc[p].deck)
          /\ \A c \in CardIds : card'[c] # Null =>
                IF card[c] # Null
                THEN CardIdentity(card'[c]) = CardIdentity(card[c])
                ELSE \E p \in Procs :
                        \/ /\ pc[p] = "cc_put"
                           /\ CardIdentity(card'[c]) =
                                  <<nextCard + 1, req[p].deckId, now>>
                        \/ /\ HoldsCard(p, c)
                           /\ CardIdentity(card'[c]) =
                                  CardIdentity(loc[p].card)]_vars

\* an updateDeck and an updateCard have each rewritten a record at a time
\* later than its creation
C33_Witness ==
    /\ \E p \in Procs :
          /\ Finished(p, "updateDeck") /\ resp[p].status = 200
          /\ deck[req[p].deckId] # Null
          /\ deck[req[p].deckId].created_at < deck[req[p].deckId].updated_at
    /\ \E q \in Procs :
          /\ Finished(q, "updateCard") /\ resp[q].status = 200
          /\ card[req[q].cardId] # Null
          /\ card[req[q].cardId].created_at < card[req[q].cardId].updated_at

\* C34: in every reachable state every deck record has a non-empty name and
\* every card record a non-empty front and back, also after an updateDeck or
\* updateCard whose body gives an empty string for such a field.
C34_RequiredFieldsNonEmpty ==
    /\ \A d \in DeckIds : deck[d] # Null => deck[d].name # ""
    /\ \A c \in CardIds :
          card[c] # Null => (card[c].front # "" /\ card[c].back # "")

\* deck record d carries the values of the payload, as it does once an
\* updateDeck with this payload has been applied
Applied(d, body) ==
    /\ Has(body, "name") => d.name = body.name
    /\ Has(body, "description") => d.description = body.description

\* request p is an updateDeck that writes its record in this step, to a
\* deck whose stored record carries the payload already
Reapplies(p) ==
    /\ req[p].op = "updateDeck"
    /\ pc[p] = "ud_put"
    /\ pc'[p] = "done"
    /\ resp'[p].status = 200
    /\ deck[req[p].deckId] # Null
    /\ Applied(deck[req[p].deckId], req[p].body)

TouchesDeck(p) ==
    /\ req[p].op \in {"createCard", "updateCard", "deleteCard"}
    /\ pc[p] \in {"cc_deck", "uc_deck", "dc_deck"}
    /\ pc'[p] = "done"
    /\ resp'[p].status # 500

\* C36: createCard, updateCard and deleteCard change no field of the parent
\* deck record other than updated_at, however their steps interleave with
\* an updateDeck: the record they put differs from the stored one in
\* updated_at at most.
C36_CardOpsOnlyRestampDeck ==
    [][\A p \in Procs :
          (TouchesDeck(p) /\ deck[loc[p].deck.id] # Null)
          => deck'[loc[p].deck.id] =
                 [deck[loc[p].deck.id] EXCEPT
                     !.updated_at = deck'[loc[p].deck.id].updated_at]]_vars

\* the ids of the decks that have been removed: generateId has handed the
\* id out and no record is stored under it
RemovedDecks == {d \in DeckIds : d <= nextDeck /\ deck[d] = Null}

\* C37: once deck:{D} has been removed, no later step of any operation
\* writes deck:{D} again; a deleted deck never reappears in the store.
C37_DeletedDeckStaysDeleted ==
    [][\A d \in RemovedDecks : deck'[d] = Null]_vars

\* const cardIds = deckCardsData?.cardIds || [];
\* const cards = await Promise.all(cardIds.map(... get(`card:${cardId}`)));
\* total: cards.filter(card => card !== null).length
\* the total listCards answers for deck D when it runs on the current store
ListCardsTotal(D) ==
    LET cardIds == IdsOf(deckCards[D], "cardIds")
        cards == [i \in 1..Len(cardIds) |-> card[cardIds[i]]]
    IN  Len(NonNull(cards))

\* C38: the cardCount a getDeck(D, O) returns equals the total listCards(D, O)
\* returns on the same state of the store, also after a deleteCard that
\* failed between deleting the card record and pruning deck_cards:{D}.
C38_CountMatchesList ==
    [][\A p \in Procs :
          (/\ req[p].op = "getDeck"
           /\ pc[p] = "gd_cards"
           /\ pc'[p] = "done"
           /\ resp'[p].status = 200)
          => resp'[p].body.deck.cardCount = ListCardsTotal(req[p].deckId)]_vars

====
